---- MODULE Spec2Model ----
(***************************************************************************)
(* Model of minimal_frost: the query execution worker                      *)
(* (src/src/connection.rs, start_db_worker), the request / response        *)
(* channels, the shared current-statement slot, and the Workspace that     *)
(* drives the worker from the UI thread (src/src/workspace.rs,             *)
(* src/src/results.rs).                                                    *)
(*                                                                         *)
(* The worker thread is modelled one driver call per step, so that the     *)
(* other thread can act between two driver calls.  The outcome of every    *)
(* driver call (Ok / Err, number of columns, end of the row stream) is an  *)
(* input chosen with \E.                                                   *)
(***************************************************************************)
EXTENDS Integers, Sequences, FiniteSets, TLC

\* ---------------------------------------------------------------- bounds
MaxBatches == 2     \* RunQueries requests sent in one behaviour
MaxQueries == 2     \* queries in one RunQueries (0..MaxQueries)
MaxTotal   == 3     \* queries sent in one behaviour, over all RunQueries
MaxCancels == 1     \* Cancel requests sent in one behaviour
MaxCols    == 1     \* columns reported by num_result_cols (0..MaxCols)
MaxRows    == 1     \* rows streamed by one statement (0..MaxRows)
\* tile store
TILE_SIZE     == 2  \* rows per tile (1_000 in the source, scaled down)
CACHE_CAP     == 3  \* capacity of the LRU cache (6 in the source, scaled down)
MaxStoreRows  == 11 \* rows streamed into from_rows (0..MaxStoreRows)
MaxStoreCols  == 2  \* columns of the streamed rows (0..MaxStoreCols)
MaxCount      == 3  \* count / max_rows passed to get_rows / prefetch_for_view
\* editor
MaxChars      == 3  \* characters typed or pasted into the rope
MaxEdits      == 2  \* edit commands (insert, delete, cut, paste) handled
MaxClock      == 1200 \* the clock stops advancing at this many ms

\* Option<SafeStmt>::None in the current-statement slot; handles are 1, 2, ...
NoStmt == 0

VARIABLES
    \* ---- channels and shared slot (start_db_worker, lines 39-43)
    reqQ,        \* request channel: requests sent and not yet received
    reqClosed,   \* the request Sender has been dropped
    resp,        \* response channel: every response sent so far, in order
    slot,        \* current_stmt: NoStmt or the handle of a statement
    \* ---- worker thread
    wpc,         \* position of the worker thread in start_db_worker
    cur,         \* the RunQueries being executed: [b |-> id, n |-> length]
    idx,         \* index of the query being executed (enumerate())
    numCols,     \* num_cols of the current result set
    col,         \* loop variable i of the describe_col loop
    colNames,    \* col_names.len()
    rows,        \* rows pulled from statement.fetch() by from_rows so far
    \* ---- driver
    nextH,       \* the next statement handle the driver hands out
    live,        \* handles of statements allocated and not yet freed
    cancelCalls, \* SQLCancel calls made: [h |-> handle, live |-> BOOLEAN]
    \* ---- sender side bookkeeping
    nextBatch,   \* id given to the next RunQueries sent
    nCancels,    \* Cancel requests sent so far
    nSent,       \* queries sent so far, over all RunQueries
    \* ---- history of the run, used by the properties only
    fails,       \* the driver steps of the query being executed that failed
    completed,   \* the batches [b, n] whose for loop has ended
    cancelDuring,\* <<b, i>>: a Cancel was sent while query i of b was running
    \* ---- Workspace (UI thread)
    connected,   \* Workspace.connected
    running,     \* Workspace.running
    uiPos,       \* number of responses the UI has received from resp
    tabs,        \* Results.tabs: the content kind of every tab
    tabIdx,      \* Results.tab_idx
    uiAlive,     \* the event loop of Workspace::run has not exited
    uiCancels,   \* cancel_query calls: [h |-> slot, inflight |-> BOOLEAN]
    wsQuery,     \* the text Workspace::get_current_query returns
    \* ---- tile store (src/src/tile_rowstore.rs)
    tpc,         \* life of the store: "none", "input", "alive", "failed",
                 \* "dropped", "panicked"
    cursorRows,  \* the result set the rows are streamed from: [n, ncols]
    store,       \* the fields of the TileRowStore
    tmp,         \* temp files on disk: [created |-> n, deleted |-> n]
    lastOp,      \* the last method called on the store
    \* ---- editor (src/src/editor.rs)
    epc,         \* "none": no editor; "run": handling keys; "panicked"
    rope,        \* Editor.rope: the text, a sequence of characters
    caret,       \* Editor.caret
    selection_anchor,   \* Editor.selection_anchor: None or Some(offset)
    modified,    \* Editor.modified
    visual_lines_valid, \* Editor.visual_lines_valid
    undo_stack,  \* Editor.undo_stack: sequence of groups, top last
    redo_stack,  \* Editor.redo_stack
    current_group,      \* Editor.current_group: None or Some(group)
    last_edit_time,     \* Editor.last_edit_time: None or Some(ms)
    clipboard,   \* text held by the system clipboard
    now,         \* Instant::now(), in ms since the editor was created
    visual_lines,       \* Editor.visual_lines, as of the last render
    nEdits,      \* edit commands handled so far (bounds the behaviour)
    fault        \* the rope call that panicked, if one did

workerVars == <<resp, slot, wpc, cur, idx, numCols, col, colNames, rows,
                nextH, live, cancelCalls, fails, completed>>
chanVars   == <<reqQ, reqClosed, nextBatch, nCancels, nSent, cancelDuring>>
uiVars     == <<connected, running, uiPos, tabs, tabIdx, uiAlive, uiCancels,
                wsQuery>>
tileVars   == <<tpc, cursorRows, store, tmp, lastOp>>
edVars     == <<epc, rope, caret, selection_anchor, modified,
                visual_lines_valid, undo_stack, redo_stack, current_group,
                last_edit_time, clipboard, now, visual_lines, nEdits,
                fault>>
vars       == <<workerVars, chanVars, uiVars, tileVars, edVars>>

\* ---------------------------------------------------------------- messages
\* DbWorkerRequest
RunQueries(b, n) == [type |-> "RunQueries", b |-> b, n |-> n]
CancelReq        == [type |-> "Cancel", b |-> 0, n |-> 0]
QuitReq          == [type |-> "Quit", b |-> 0, n |-> 0]

\* DbWorkerResponse; b is the id of the RunQueries the response belongs to,
\* kind the ResultsContent variant carried by QueryFinished
Msg(t, b, i, k)    == [type |-> t, b |-> b, idx |-> i, kind |-> k]
ConnectedMsg       == Msg("Connected", 0, 0, "-")
StartedMsg_OneBased(b, i) == Msg("QueryStarted", b, i + 1, "-")
StartedMsg(b, i)   == Msg("QueryStarted", b, i, "-")
FinishedMsg(b, i, k) == Msg("QueryFinished", b, i, k)
ErrorMsg(b, i)     == Msg("QueryError", b, i, "-")

NoBatch == [b |-> 0, n |-> 0]

\* the worker is between QueryStarted and the end of the loop body of a query
InQuery == wpc \in {"alloc", "exec", "numcols", "describe", "fetch",
                    "build", "clear"}
\* the statement whose handle was published is inside a driver call
InFlight == wpc \in {"exec", "numcols", "describe", "fetch", "build"}
Stopped == wpc \in {"done", "crashed"}

\* ---------------------------------------------------------------- Init
SysInit ==
    /\ reqQ = <<>> /\ reqClosed = FALSE /\ resp = <<>> /\ slot = NoStmt
    /\ wpc = "init" /\ cur = NoBatch /\ idx = 0
    /\ numCols = 0 /\ col = 0 /\ colNames = 0 /\ rows = 0
    /\ nextH = 1 /\ live = {} /\ cancelCalls = {}
    /\ nextBatch = 1 /\ nCancels = 0 /\ nSent = 0
    /\ fails = {} /\ completed = {} /\ cancelDuring = {}
    /\ connected = FALSE /\ running = FALSE /\ uiPos = 0
    /\ tabs = <<>> /\ tabIdx = 0 /\ uiAlive = TRUE /\ uiCancels = {}
    /\ wsQuery = <<>>

\* Option<T>
None    == [some |-> FALSE, v |-> <<>>]
Some(x) == [some |-> TRUE, v |-> x]

\* no TileRowStore has been constructed
NoStore == [temp_file |-> FALSE, file |-> <<>>, file_pos |-> 0,
            tile_offsets |-> <<>>, tile_row_counts |-> <<>>,
            ncols |-> 0, nrows |-> 0, cache |-> <<>>,
            first_tile |-> None, last_tile |-> None]
NoInput == [n |-> 0, ncols |-> 0]
NoTemp  == [created |-> 0, deleted |-> 0]

\* the threads of the application start with no result store built
TileIdle ==
    /\ tpc = "none" /\ cursorRows = NoInput /\ store = NoStore
    /\ tmp = NoTemp /\ lastOp = "none"

\* no Editor has been constructed
NoFault == [op |-> "none", at |-> 0, to |-> 0]
EdIdle ==
    /\ epc = "none" /\ rope = <<>> /\ caret = 0 /\ selection_anchor = None
    /\ modified = FALSE /\ visual_lines_valid = FALSE
    /\ undo_stack = <<>> /\ redo_stack = <<>> /\ current_group = None
    /\ last_edit_time = None /\ clipboard = <<>> /\ now = 0
    /\ visual_lines = <<>> /\ nEdits = 0 /\ fault = NoFault

Init == SysInit /\ TileIdle /\ EdIdle

\* ---------------------------------------------------------------- worker
\* req_rx.recv(): the oldest request and the channel without it
Recv_Lifo == [msg |-> reqQ[Len(reqQ)], rest |-> SubSeq(reqQ, 1, Len(reqQ) - 1)]
Recv == [msg |-> Head(reqQ), rest |-> Tail(reqQ)]

\* create_environment_v3()
W_CreateEnv ==
    /\ wpc = "init"
    /\ \E ok \in BOOLEAN : wpc' = IF ok THEN "connect" ELSE "degraded"
    /\ UNCHANGED <<resp, slot, cur, idx, numCols, col, colNames, rows,
                   nextH, live, cancelCalls, fails, completed>>
    /\ UNCHANGED <<chanVars, uiVars>>
    /\ UNCHANGED <<tileVars, edVars>>

\* env.connect_with_connection_string(): on Ok send Connected and run the
\* session statement, whose handle is allocated and dropped inside the arm
\* and never published (it is back with the driver when the arm ends, so
\* live and nextH are as before); on Err fall into the discarding loop
W_Connect ==
    /\ wpc = "connect"
    /\ \E ok \in BOOLEAN :
         IF ok
         THEN /\ resp' = Append(resp, ConnectedMsg)
              /\ wpc' = "idle"
         ELSE /\ wpc' = "degraded"
              /\ UNCHANGED resp
    /\ UNCHANGED <<slot, cur, idx, numCols, col, colNames, rows,
                   nextH, live, cancelCalls, fails, completed>>
    /\ UNCHANGED <<chanVars, uiVars>>
    /\ UNCHANGED <<tileVars, edVars>>

\* the two `loop { match req_rx.recv() { Quit | Err => break, _ => continue } }`
W_DegradedRecv_Answers ==
    /\ wpc = "degraded"
    /\ \/ /\ reqQ # <<>>
          /\ reqQ' = Recv.rest
          /\ wpc' = IF Recv.msg.type = "Quit" THEN "done" ELSE "degraded"
          /\ resp' = IF Recv.msg.type = "RunQueries" /\ Recv.msg.n > 0
                     THEN Append(resp, ErrorMsg(Recv.msg.b, 0)) ELSE resp
       \/ /\ reqQ = <<>> /\ reqClosed
          /\ wpc' = "done"
          /\ UNCHANGED <<reqQ, resp>>
    /\ UNCHANGED <<slot, cur, idx, numCols, col, colNames, rows,
                   nextH, live, cancelCalls, fails, completed>>
    /\ UNCHANGED <<reqClosed, nextBatch, nCancels, nSent, cancelDuring,
                   uiVars>>
    /\ UNCHANGED <<tileVars, edVars>>

W_DegradedRecv ==
    /\ wpc = "degraded"
    /\ \/ /\ reqQ # <<>>
          /\ reqQ' = Recv.rest
          /\ wpc' = IF Recv.msg.type = "Quit" THEN "done" ELSE "degraded"
       \/ /\ reqQ = <<>> /\ reqClosed
          /\ wpc' = "done"
          /\ UNCHANGED reqQ
    /\ UNCHANGED <<resp, slot, cur, idx, numCols, col, colNames, rows,
                   nextH, live, cancelCalls, fails, completed>>
    /\ UNCHANGED <<reqClosed, nextBatch, nCancels, nSent, cancelDuring,
                   uiVars>>
    /\ UNCHANGED <<tileVars, edVars>>

\* end of the body of `for (idx, ..) in queries.into_iter().enumerate()`:
\* the position, index and finished batches after query i of batch c
NextQuery_BreakOnError(c, i, failed) ==
    IF i + 1 < c.n /\ ~failed
    THEN [pc |-> "started", idx |-> i + 1, completed |-> completed]
    ELSE [pc |-> "idle", idx |-> 0, completed |-> completed \cup {c}]
NextQuery_CancelAborts(c, i, failed) ==
    IF i + 1 < c.n /\ ~(\E k \in 1..Len(reqQ) : reqQ[k].type = "Cancel")
    THEN [pc |-> "started", idx |-> i + 1, completed |-> completed]
    ELSE [pc |-> "idle", idx |-> 0, completed |-> completed \cup {c}]
NextQuery(c, i, failed) ==
    IF i + 1 < c.n
    THEN [pc |-> "started", idx |-> i + 1, completed |-> completed]
    ELSE [pc |-> "idle", idx |-> 0, completed |-> completed \cup {c}]

\* `continue` of the for loop over the queries, or the end of its body: the
\* locals of the body (num_cols, i, col_names, the row iterator) go out of
\* scope
Advance(failed) ==
    /\ wpc' = NextQuery(cur, idx, failed).pc
    /\ idx' = NextQuery(cur, idx, failed).idx
    /\ completed' = NextQuery(cur, idx, failed).completed
    /\ numCols' = 0 /\ col' = 0 /\ colNames' = 0 /\ rows' = 0 /\ fails' = {}

\* Ok(DbWorkerRequest::RunQueries(queries)): enter the for loop
W_RecvRun ==
    /\ wpc = "idle" /\ reqQ # <<>> /\ Recv.msg.type = "RunQueries"
    /\ reqQ' = Recv.rest
    /\ cur' = [b |-> Recv.msg.b, n |-> Recv.msg.n]
    /\ IF Recv.msg.n = 0
       THEN /\ wpc' = "idle" /\ idx' = 0
            /\ completed' = completed \cup {[b |-> Recv.msg.b, n |-> 0]}
       ELSE /\ wpc' = "started" /\ idx' = 0
            /\ UNCHANGED completed
    /\ UNCHANGED <<resp, slot, numCols, col, colNames, rows, nextH, live,
                   cancelCalls, fails>>
    /\ UNCHANGED <<reqClosed, nextBatch, nCancels, nSent, cancelDuring,
                   uiVars>>
    /\ UNCHANGED <<tileVars, edVars>>

\* Ok(DbWorkerRequest::Cancel): SQLCancel on the handle in the slot, if any.
\* A handle that is not live belongs to a statement that was already
\* dropped: the call is made on a dangling handle and either returns an
\* error code or takes the process down.
W_RecvCancel ==
    /\ wpc = "idle" /\ reqQ # <<>> /\ Recv.msg.type = "Cancel"
    /\ reqQ' = Recv.rest
    /\ IF slot # NoStmt
       THEN /\ cancelCalls' = cancelCalls \cup
                                {[h |-> slot, live |-> slot \in live]}
            /\ IF slot \in live
               THEN wpc' = "idle"
               ELSE \E crash \in BOOLEAN :
                        wpc' = IF crash THEN "crashed" ELSE "idle"
       ELSE UNCHANGED <<cancelCalls, wpc>>
    /\ UNCHANGED <<resp, slot, cur, idx, numCols, col, colNames, rows,
                   nextH, live, fails, completed>>
    /\ UNCHANGED <<reqClosed, nextBatch, nCancels, nSent, cancelDuring,
                   uiVars>>
    /\ UNCHANGED <<tileVars, edVars>>

\* Ok(DbWorkerRequest::Quit) | Err(_) => break
W_RecvQuit_ErrOnly ==
    /\ wpc = "idle"
    /\ \/ /\ reqQ # <<>> /\ Recv.msg.type = "Quit"
          /\ reqQ' = Recv.rest
          /\ wpc' = "idle"
       \/ /\ reqQ = <<>> /\ reqClosed
          /\ UNCHANGED reqQ
          /\ wpc' = "done"
    /\ UNCHANGED <<resp, slot, cur, idx, numCols, col, colNames, rows,
                   nextH, live, cancelCalls, fails, completed>>
    /\ UNCHANGED <<reqClosed, nextBatch, nCancels, nSent, cancelDuring,
                   uiVars>>
    /\ UNCHANGED <<tileVars, edVars>>

W_RecvQuit ==
    /\ wpc = "idle"
    /\ \/ /\ reqQ # <<>> /\ Recv.msg.type = "Quit"
          /\ reqQ' = Recv.rest
       \/ /\ reqQ = <<>> /\ reqClosed
          /\ UNCHANGED reqQ
    /\ wpc' = "done"
    /\ UNCHANGED <<resp, slot, cur, idx, numCols, col, colNames, rows,
                   nextH, live, cancelCalls, fails, completed>>
    /\ UNCHANGED <<reqClosed, nextBatch, nCancels, nSent, cancelDuring,
                   uiVars>>
    /\ UNCHANGED <<tileVars, edVars>>

\* resp_tx.send(DbWorkerResponse::QueryStarted { query_idx: idx, .. })
W_SendStarted ==
    /\ wpc = "started"
    /\ resp' = Append(resp, StartedMsg(cur.b, idx))
    /\ wpc' = "alloc"
    /\ UNCHANGED <<slot, cur, idx, numCols, col, colNames, rows, nextH, live,
                   cancelCalls, fails, completed>>
    /\ UNCHANGED <<chanVars, uiVars>>
    /\ UNCHANGED <<tileVars, edVars>>

\* Statement::with_parent(&conn): Ok publishes the handle in the slot,
\* Err sends QueryError and ends the loop body (the slot is not touched)
W_Alloc ==
    /\ wpc = "alloc"
    /\ \E ok \in BOOLEAN :
         IF ok
         THEN /\ live' = live \cup {nextH}
              /\ slot' = nextH
              /\ nextH' = nextH + 1
              /\ wpc' = "exec"
              /\ UNCHANGED <<resp, idx, completed, numCols, col, colNames,
                             rows, fails>>
         ELSE /\ resp' = Append(resp, ErrorMsg(cur.b, idx))
              /\ Advance(TRUE)
              /\ UNCHANGED <<live, slot, nextH>>
    /\ UNCHANGED <<cur, cancelCalls>>
    /\ UNCHANGED <<chanVars, uiVars>>
    /\ UNCHANGED <<tileVars, edVars>>

\* stmt.exec_direct(&query): Data goes on to the column count; NoData sends
\* QueryFinished(Info) and Err sends QueryError, both drop the statement and
\* fall through to the code that clears the slot
W_ExecDirect ==
    /\ wpc = "exec"
    /\ \E r \in {"Data", "NoData", "Err"} :
         CASE r = "Data" ->
                /\ wpc' = "numcols"
                /\ UNCHANGED <<resp, live, fails>>
           [] r = "NoData" ->
                /\ resp' = Append(resp, FinishedMsg(cur.b, idx, "Info"))
                /\ live' = live \ {slot}
                /\ wpc' = "clear"
                /\ UNCHANGED fails
           [] r = "Err" ->
                /\ resp' = Append(resp, ErrorMsg(cur.b, idx))
                /\ fails' = fails \cup {"exec"}
                /\ live' = live \ {slot}
                /\ wpc' = "clear"
    /\ UNCHANGED <<slot, cur, idx, numCols, col, colNames, rows, nextH,
                   cancelCalls, completed>>
    /\ UNCHANGED <<chanVars, uiVars>>
    /\ UNCHANGED <<tileVars, edVars>>

\* statement.num_result_cols(): Err sends QueryError and `continue`s the
\* for loop over the queries: the statement is dropped, the code that
\* clears the slot is skipped
W_NumResultCols ==
    /\ wpc = "numcols"
    /\ \/ \E n \in 0..MaxCols :
            /\ numCols' = n /\ col' = 1 /\ colNames' = 0
            /\ wpc' = IF n = 0 THEN "fetch" ELSE "describe"
            /\ UNCHANGED <<resp, live, fails, idx, completed, rows>>
       \/ /\ resp' = Append(resp, ErrorMsg(cur.b, idx))
          /\ live' = live \ {slot}
          /\ Advance(TRUE)
    /\ UNCHANGED <<slot, cur, nextH, cancelCalls>>
    /\ UNCHANGED <<chanVars, uiVars>>
    /\ UNCHANGED <<tileVars, edVars>>

\* one iteration of `for i in 1..=num_cols`: statement.describe_col(i).
\* Err sends QueryError and `continue`s this inner loop, so the next column
\* is described and the query goes on to from_rows
W_DescribeCol ==
    /\ wpc = "describe" /\ col <= numCols
    /\ \E ok \in BOOLEAN :
         IF ok
         THEN /\ colNames' = colNames + 1
              /\ UNCHANGED <<resp, fails>>
         ELSE /\ resp' = Append(resp, ErrorMsg(cur.b, idx))
              /\ fails' = fails \cup {"describe"}
              /\ UNCHANGED colNames
    /\ col' = col + 1
    /\ wpc' = IF col + 1 > numCols THEN "fetch" ELSE "describe"
    /\ UNCHANGED <<slot, cur, idx, numCols, rows, nextH, live, cancelCalls,
                   completed>>
    /\ UNCHANGED <<chanVars, uiVars>>
    /\ UNCHANGED <<tileVars, edVars>>

\* from_rows pulls one row: statement.fetch() returned Ok(Some(cursor))
W_FetchRow ==
    /\ wpc = "fetch" /\ rows < MaxRows
    /\ rows' = rows + 1
    /\ UNCHANGED <<resp, slot, wpc, cur, idx, numCols, col, colNames,
                   nextH, live, cancelCalls, fails, completed>>
    /\ UNCHANGED <<chanVars, uiVars>>
    /\ UNCHANGED <<tileVars, edVars>>

\* the row iterator ends: statement.fetch() returned Ok(None), or Err(_),
\* which the `_ => None` arm turns into the end of the stream as well
W_FetchEnd ==
    /\ wpc = "fetch"
    /\ \E err \in BOOLEAN :
         fails' = IF err THEN fails \cup {"fetch"} ELSE fails
    /\ wpc' = "build"
    /\ UNCHANGED <<resp, slot, cur, idx, numCols, col, colNames, rows,
                   nextH, live, cancelCalls, completed>>
    /\ UNCHANGED <<chanVars, uiVars>>
    /\ UNCHANGED <<tileVars, edVars>>

\* TileRowStore::from_rows returned Ok(store): QueryFinished(Table) with the
\* rows pulled so far; the statement is dropped at the end of the arm
W_StoreOk ==
    /\ wpc = "build"
    /\ resp' = Append(resp, FinishedMsg(cur.b, idx, "Table"))
    /\ live' = live \ {slot}
    /\ wpc' = "clear"
    /\ UNCHANGED <<slot, cur, idx, numCols, col, colNames, rows, nextH,
                   cancelCalls, fails, completed>>
    /\ UNCHANGED <<chanVars, uiVars>>
    /\ UNCHANGED <<tileVars, edVars>>

\* TileRowStore::from_rows returned Err (an io error while writing a tile or
\* after the stream ended): QueryError and `continue` of the for loop over
\* the queries, the code that clears the slot is skipped
W_StoreErr ==
    /\ wpc \in {"fetch", "build"}
    /\ resp' = Append(resp, ErrorMsg(cur.b, idx))
    /\ live' = live \ {slot}
    /\ Advance(TRUE)
    /\ UNCHANGED <<slot, cur, nextH, cancelCalls>>
    /\ UNCHANGED <<chanVars, uiVars>>
    /\ UNCHANGED <<tileVars, edVars>>

\* `*current = None` after the match on exec_direct, then the next query
W_ClearSlot ==
    /\ wpc = "clear"
    /\ slot' = NoStmt
    /\ Advance(FALSE)
    /\ UNCHANGED <<resp, cur, nextH, live, cancelCalls>>
    /\ UNCHANGED <<chanVars, uiVars>>
    /\ UNCHANGED <<tileVars, edVars>>

Worker ==
    \/ W_CreateEnv \/ W_Connect \/ W_DegradedRecv
    \/ W_RecvRun \/ W_RecvCancel \/ W_RecvQuit
    \/ W_SendStarted \/ W_Alloc \/ W_ExecDirect \/ W_NumResultCols
    \/ W_DescribeCol \/ W_FetchRow \/ W_FetchEnd \/ W_StoreOk \/ W_StoreErr
    \/ W_ClearSlot

\* ---------------------------------------------------------------- sender
\* The holder of the request Sender returned by start_db_worker sends any
\* request at any time.  A send to a worker that has exited fails and is
\* ignored (`let _ =`), so nothing is queued then.
S_SendRun ==
    /\ ~reqClosed /\ ~Stopped /\ nextBatch <= MaxBatches
    /\ \E n \in 0..MaxQueries :
         /\ nSent + n <= MaxTotal
         /\ reqQ' = Append(reqQ, RunQueries(nextBatch, n))
         /\ nSent' = nSent + n
    /\ nextBatch' = nextBatch + 1
    /\ UNCHANGED <<reqClosed, nCancels, cancelDuring, workerVars, uiVars>>
    /\ UNCHANGED <<tileVars, edVars>>

S_SendCancel ==
    /\ ~reqClosed /\ ~Stopped /\ nCancels < MaxCancels
    /\ reqQ' = Append(reqQ, CancelReq)
    /\ nCancels' = nCancels + 1
    /\ cancelDuring' = IF InQuery THEN cancelDuring \cup {<<cur.b, idx>>}
                       ELSE cancelDuring
    /\ UNCHANGED <<reqClosed, nextBatch, nSent, workerVars, uiVars>>
    /\ UNCHANGED <<tileVars, edVars>>

\* a Quit is in the request channel; the sender sends Quit once and may go
\* on sending behind it
QuitQueued == \E k \in 1..Len(reqQ) : reqQ[k].type = "Quit"

S_SendQuit ==
    /\ ~reqClosed /\ ~Stopped /\ ~QuitQueued
    /\ reqQ' = Append(reqQ, QuitReq)
    /\ UNCHANGED <<reqClosed, nextBatch, nCancels, nSent, cancelDuring,
                   workerVars, uiVars>>
    /\ UNCHANGED <<tileVars, edVars>>

S_Drop ==
    /\ ~reqClosed
    /\ reqClosed' = TRUE
    /\ UNCHANGED <<reqQ, nextBatch, nCancels, nSent, cancelDuring,
                   workerVars, uiVars>>
    /\ UNCHANGED <<tileVars, edVars>>

Sender == S_SendRun \/ S_SendCancel \/ S_SendQuit \/ S_Drop

\* ---------------------------------------------------------------- Workspace
\* Results::add_result: the first Pending tab takes the result; without a
\* Pending tab a new tab is pushed and selected
FirstPending(ts) ==
    IF \E k \in 1..Len(ts) : ts[k] = "Pending"
    THEN CHOOSE k \in 1..Len(ts) :
            ts[k] = "Pending" /\ \A j \in 1..(k - 1) : ts[j] # "Pending"
    ELSE 0

add_result(w, content) ==
    IF FirstPending(w.tabs) # 0
    THEN [w EXCEPT !.tabs = [w.tabs EXCEPT ![FirstPending(w.tabs)] = content]]
    ELSE [w EXCEPT !.tabs = Append(w.tabs, content),
                   !.tabIdx = Len(w.tabs)]

\* one arm of the match in Workspace::poll_db_responses
OnResponse(w, m) ==
    CASE m.type = "Connected" -> [w EXCEPT !.connected = TRUE]
      [] m.type = "QueryStarted" ->
            [w EXCEPT !.running = TRUE,
                      !.tabs = Append(w.tabs, "Pending"),
                      !.tabIdx = Len(w.tabs)]
      [] m.type = "QueryFinished" ->
            add_result([w EXCEPT !.running = FALSE], m.kind)
      [] m.type = "QueryError" ->
            add_result([w EXCEPT !.running = FALSE], "Error")

\* `while let Ok(response) = self.db_resp_rx.try_recv()`: the responses
\* ms[k..], handled in order
RECURSIVE Drain(_, _, _)
Drain(w, ms, k) ==
    IF k > Len(ms) THEN w ELSE Drain(OnResponse(w, ms[k]), ms, k + 1)

UIState == [connected |-> connected, running |-> running,
            tabs |-> tabs, tabIdx |-> tabIdx]

\* Workspace::poll_db_responses, called at the top of every turn of the
\* event loop: receives every response that is in the channel
UI_Poll ==
    /\ uiAlive /\ wpc # "crashed"
    /\ uiPos < Len(resp)
    /\ LET w == Drain(UIState, resp, uiPos + 1) IN
         /\ connected' = w.connected
         /\ running' = w.running
         /\ tabs' = w.tabs
         /\ tabIdx' = w.tabIdx
    /\ uiPos' = Len(resp)
    /\ UNCHANGED <<uiAlive, uiCancels, wsQuery, workerVars, chanVars>>
    /\ UNCHANGED <<tileVars, edVars>>

\* the texts of the editor buffer of the Workspace: "" and "q"
QueryTexts == {<<>>, <<113>>}

\* a key routed to the editor pane (texteditor::handle_editor_key): the
\* selection or buffer that get_current_query returns becomes another text
UI_EditorKey ==
    /\ uiAlive /\ wpc # "crashed"
    /\ \E t \in QueryTexts \ {wsQuery} : wsQuery' = t
    /\ UNCHANGED <<connected, running, uiPos, tabs, tabIdx, uiAlive,
                   uiCancels>>
    /\ UNCHANGED <<workerVars, chanVars, tileVars, edVars>>

\* Workspace::get_current_query
WsCurrentQuery == wsQuery

UI_RunQuery_NoConnectedGuard ==
    /\ uiAlive /\ wpc # "crashed"
    /\ nextBatch <= MaxBatches /\ nSent + 1 <= MaxTotal
    /\ IF running \/ WsCurrentQuery = <<>>
       THEN UNCHANGED <<reqQ, nextBatch, nSent>>
       ELSE /\ reqQ' = Append(reqQ, RunQueries(nextBatch, 1))
            /\ nextBatch' = nextBatch + 1
            /\ nSent' = nSent + 1
    /\ UNCHANGED <<reqClosed, nCancels, cancelDuring, workerVars, uiVars>>
    /\ UNCHANGED <<tileVars, edVars>>

\* Ctrl+Enter: Workspace::run_query
UI_RunQuery ==
    /\ uiAlive /\ wpc # "crashed"
    /\ nextBatch <= MaxBatches /\ nSent + 1 <= MaxTotal
    /\ IF running \/ ~connected \/ WsCurrentQuery = <<>>
       THEN UNCHANGED <<reqQ, nextBatch, nSent>>
       ELSE /\ reqQ' = Append(reqQ, RunQueries(nextBatch, 1))
            /\ nextBatch' = nextBatch + 1
            /\ nSent' = nSent + 1
    /\ UNCHANGED <<reqClosed, nCancels, cancelDuring, workerVars, uiVars>>
    /\ UNCHANGED <<tileVars, edVars>>

\* Ctrl+C while self.running: Workspace::cancel_query sends
\* DbWorkerRequest::Cancel; current_stmt is not read
UI_CancelQuery ==
    /\ uiAlive /\ wpc # "crashed"
    /\ nCancels < MaxCancels
    /\ running
    /\ reqQ' = Append(reqQ, CancelReq)
    /\ nCancels' = nCancels + 1
    /\ uiCancels' = uiCancels \cup {[h |-> slot, inflight |-> InFlight]}
    /\ cancelDuring' = IF InQuery THEN cancelDuring \cup {<<cur.b, idx>>}
                       ELSE cancelDuring
    /\ UNCHANGED <<reqClosed, nextBatch, nSent, workerVars>>
    /\ UNCHANGED <<connected, running, uiPos, tabs, tabIdx, uiAlive, wsQuery>>
    /\ UNCHANGED <<tileVars, edVars>>

\* Ctrl+Q: the event loop ends and the Workspace, with its Sender, is dropped
UI_Exit ==
    /\ uiAlive /\ wpc # "crashed"
    /\ uiAlive' = FALSE
    /\ reqClosed' = TRUE
    /\ UNCHANGED <<reqQ, nextBatch, nCancels, nSent, cancelDuring,
                   workerVars>>
    /\ UNCHANGED <<connected, running, uiPos, tabs, tabIdx, uiCancels, wsQuery>>
    /\ UNCHANGED <<tileVars, edVars>>

UI == UI_Poll \/ UI_RunQuery \/ UI_CancelQuery \/ UI_Exit \/ UI_EditorKey

Next == Worker \/ Sender

\* the worker driven by any holder of the request Sender
Spec == Init /\ [][Next]_vars

\* the worker thread is scheduled and every driver call returns: a step of
\* the worker that can be taken is taken
SpecFair == Init /\ [][Next]_vars /\ WF_vars(Worker)

\* the worker driven by the Workspace
NextUI == Worker \/ UI
SpecUI == Init /\ [][NextUI]_vars

\* ---------------------------------------------------------------- tile store
\* src/src/tile_rowstore.rs.  A String is the sequence of its UTF-8 bytes, a
\* row a sequence of Strings, a tile a sequence of rows, the temp file the
\* sequence of its bytes.  Rows and tiles are numbered from 0 as in the
\* source; TLA+ sequences are indexed from 1.  Reads of the temp file the
\* store has just written are taken to succeed.

\* "<Frost-NULL>"
NULL_SENTINEL == <<60, 70, 114, 111, 115, 116, 45, 78, 85, 76, 76, 62>>
\* b"SNTR"
MAGIC == <<83, 78, 84, 82>>
\* usize::MAX, as far as the model's integers reach: only its quotient by
\* TILE_SIZE being larger than every tile index matters
USIZE_MAX == 2147483647

Min(a, b) == IF a < b THEN a ELSE b

\* write_u32::<LittleEndian>, write_u64::<LittleEndian> (offsets < 2^31 here)
U32(v) == <<v % 256, (v \div 256) % 256, (v \div 65536) % 256,
            (v \div 16777216) % 256>>
U64(v) == U32(v) \o <<0, 0, 0, 0>>
\* read_u32::<LittleEndian> at byte offset p of f
ReadU32(f, p) ==
    f[p + 1] + 256 * f[p + 2] + 65536 * f[p + 3] + 16777216 * f[p + 4]

\* String::from_utf8_lossy on byte sequences made of one- and two-byte
\* characters: a byte that starts no well-formed character becomes U+FFFD
RECURSIVE Utf8Lossy_AsciiOnly(_, _)
Utf8Lossy_AsciiOnly(buf, i) ==
    IF i > Len(buf) THEN <<>>
    ELSE IF buf[i] < 128 THEN <<buf[i]>> \o Utf8Lossy_AsciiOnly(buf, i + 1)
    ELSE <<239, 191, 189>> \o Utf8Lossy_AsciiOnly(buf, i + 1)

RECURSIVE Utf8Lossy(_, _)
Utf8Lossy(buf, i) ==
    IF i > Len(buf) THEN <<>>
    ELSE IF buf[i] < 128 THEN <<buf[i]>> \o Utf8Lossy(buf, i + 1)
    ELSE IF /\ buf[i] >= 194 /\ buf[i] <= 223 /\ i < Len(buf)
            /\ buf[i + 1] >= 128 /\ buf[i + 1] <= 191
         THEN <<buf[i], buf[i + 1]>> \o Utf8Lossy(buf, i + 2)
    ELSE <<239, 191, 189>> \o Utf8Lossy(buf, i + 1)

\* ---- the rows the worker streams into from_rows (connection.rs 142-159)
\* cursor.get_data(c + 1) on row r of the result set: a NULL, a string or a
\* driver error; column 0 is a key that differs from row to row
DriverCell(r, c) ==
    IF c = 0 THEN [k |-> "str", v |-> <<48 + r>>]
    ELSE CASE r % 4 = 0 -> [k |-> "null", v |-> <<>>]
           [] r % 4 = 1 -> [k |-> "str", v |-> <<195, 169>>]
           [] r % 4 = 2 -> [k |-> "err", v |-> <<>>]
           [] OTHER     -> [k |-> "str", v |-> <<>>]

\* .unwrap_or(None) then .unwrap_or_else(|| NULL_SENTINEL.to_string())
CellText_Empty(d) == d.v
CellText(d) == IF d.k = "str" THEN d.v ELSE NULL_SENTINEL

\* the iterator handed to from_rows: one Vec<String> per fetched row
CursorRow(r, ncols) == [c \in 1..ncols |-> CellText(DriverCell(r, c - 1))]
rows_iter(in) == [r \in 1..in.n |-> CursorRow(r - 1, in.ncols)]

\* ---- writing
RECURSIVE write_cells(_, _)
write_cells(row, k) ==
    IF k > Len(row) THEN <<>>
    ELSE U32(Len(row[k])) \o row[k] \o write_cells(row, k + 1)

RECURSIVE write_rows(_, _)
write_rows(rs, k) ==
    IF k > Len(rs) THEN <<>>
    ELSE write_cells(rs[k], 1) \o write_rows(rs, k + 1)

write_tile(rs) ==
    U32(Len(rs)) \o U32(IF rs = <<>> THEN 0 ELSE Len(rs[1]))
                 \o write_rows(rs, 1)

\* tile_offsets.push(stream_position); write_tile; tile_row_counts.push
PushTile(w) ==
    [w EXCEPT !.tile_offsets = Append(@, Len(w.file)),
              !.file = @ \o write_tile(w.buf_tile),
              !.tile_row_counts = Append(@, Len(w.buf_tile)),
              !.buf_tile = <<>>]

\* for row in rows_iter { ... }
RECURSIVE from_rows_loop(_, _, _)
from_rows_loop(rs, k, w) ==
    IF k > Len(rs) THEN w
    ELSE LET w1 == [w EXCEPT !.buf_tile = Append(@, rs[k]), !.nrows = @ + 1]
         IN  from_rows_loop(rs, k + 1,
                 IF Len(w1.buf_tile) = TILE_SIZE THEN PushTile(w1) ELSE w1)

\* "Write last (possibly short) tile"
FlushLast_Skip(w) == w
FlushLast(w) == IF w.buf_tile # <<>> THEN PushTile(w) ELSE w

RECURSIVE OffsetTable(_, _)
OffsetTable(offs, k) ==
    IF k > Len(offs) THEN <<>> ELSE U64(offs[k]) \o OffsetTable(offs, k + 1)
RECURSIVE CountTable(_, _)
CountTable(cnts, k) ==
    IF k > Len(cnts) THEN <<>> ELSE U32(cnts[k]) \o CountTable(cnts, k + 1)

\* seek(SeekFrom::Start(p)); write_u32(v)
Patch(f, p, v) ==
    [i \in 1..Len(f) |-> IF i > p /\ i <= p + 4 THEN U32(v)[i - p] ELSE f[i]]

\* ---- reading
RECURSIVE read_cells(_, _, _, _)
read_cells(f, p, n, row) ==
    IF n = 0 THEN [row |-> row, pos |-> p]
    ELSE LET len == ReadU32(f, p)
             buf == SubSeq(f, p + 5, p + 4 + len)
         IN  read_cells(f, p + 4 + len, n - 1,
                        Append(row, Utf8Lossy(buf, 1)))

RECURSIVE read_rows(_, _, _, _, _)
read_rows(f, p, n, col_count, rs) ==
    IF n = 0 THEN [rows |-> rs, pos |-> p]
    ELSE LET r == read_cells(f, p, col_count, <<>>)
         IN  read_rows(f, r.pos, n - 1, col_count, Append(rs, r.row))

\* load_tile_arc(idx): the tile read from the file, and the store with the
\* read cursor behind the tile; nothing is put into the cache
load_tile_arc(s, i) ==
    IF i >= Len(s.tile_offsets)
    THEN [ok |-> FALSE, tile |-> <<>>, s |-> s]
    ELSE LET offset    == s.tile_offsets[i + 1]
             row_count == ReadU32(s.file, offset)
             col_count == ReadU32(s.file, offset + 4)
             r == read_rows(s.file, offset + 8, row_count, col_count, <<>>)
         IN  [ok |-> TRUE, tile |-> r.rows, s |-> [s EXCEPT !.file_pos = r.pos]]

\* ---- LruCache<usize, Arc<tile>>: entries [idx, tile], most recent first
cache_contains(c, k) == \E i \in 1..Len(c) : c[i].idx = k
\* get: the entry becomes the most recently used
cache_get(c, k) ==
    LET i == CHOOSE i \in 1..Len(c) : c[i].idx = k
    IN  <<c[i]>> \o SubSeq(c, 1, i - 1) \o SubSeq(c, i + 1, Len(c))
\* put: insert as most recently used, evicting the least recently used
\* entry when the cache is full
cache_put_EvictNewest(c, k, t) ==
    LET rest == SelectSeq(c, LAMBDA e : e.idx # k)
        all  == <<[idx |-> k, tile |-> t]>> \o rest
    IN  IF Len(all) > CACHE_CAP THEN <<all[1]>> \o SubSeq(all, 3, Len(all))
        ELSE all
cache_put(c, k, t) ==
    LET rest == SelectSeq(c, LAMBDA e : e.idx # k)
        all  == <<[idx |-> k, tile |-> t]>> \o rest
    IN  IF Len(all) > CACHE_CAP THEN SubSeq(all, 1, CACHE_CAP) ELSE all

\* the tile resolution of get_rows (lines 196-210); loads lists the tiles
\* read from disk
Resolved(t, s, loads) == [ok |-> TRUE, tile |-> t, s |-> s, loads |-> loads]
Pinned(opt, s, i) ==
    IF opt.some THEN Resolved(opt.v, s, <<>>)
    ELSE LET l == load_tile_arc(s, i)
         IN  [ok |-> l.ok, tile |-> l.tile, s |-> l.s, loads |-> <<i>>]
ResolveTile_Repin(s, tile_idx) ==
    LET l == load_tile_arc(s, tile_idx)
    IN  IF tile_idx = 0 THEN Pinned(s.first_tile, s, 0)
        ELSE IF tile_idx = Len(s.tile_offsets) - 1
        THEN Pinned(s.last_tile, s, tile_idx)
        ELSE IF cache_contains(s.cache, tile_idx)
        THEN Resolved(cache_get(s.cache, tile_idx)[1].tile,
                      [s EXCEPT !.cache = cache_get(@, tile_idx)], <<>>)
        ELSE Resolved(l.tile,
                 [l.s EXCEPT !.cache = cache_put(@, tile_idx, l.tile),
                             !.last_tile = Some(l.tile)],
                 <<tile_idx>>)
ResolveTile_CacheAll(s, tile_idx) ==
    LET l == load_tile_arc(s, tile_idx)
    IN  Resolved(l.tile, [l.s EXCEPT !.cache = cache_put(@, tile_idx, l.tile)],
                 <<tile_idx>>)
ResolveTile(s, tile_idx) ==
    IF tile_idx = 0 THEN Pinned(s.first_tile, s, 0)
    ELSE IF tile_idx = Len(s.tile_offsets) - 1
    THEN Pinned(s.last_tile, s, tile_idx)
    ELSE IF cache_contains(s.cache, tile_idx)
    THEN LET c == cache_get(s.cache, tile_idx)
         IN  Resolved(c[1].tile, [s EXCEPT !.cache = c], <<>>)
    ELSE LET l == load_tile_arc(s, tile_idx)
         IN  IF ~l.ok THEN [ok |-> FALSE, tile |-> <<>>, s |-> l.s,
                            loads |-> <<tile_idx>>]
             ELSE Resolved(l.tile,
                      [l.s EXCEPT !.cache = cache_put(@, tile_idx, l.tile)],
                      <<tile_idx>>)

\* while curr < end { ... }
RECURSIVE get_rows_loop(_, _, _, _, _)
get_rows_loop(s, curr, end, result, loads) ==
    IF curr >= end
    THEN [ok |-> TRUE, rows |-> result, s |-> s, loads |-> loads]
    ELSE LET tile_idx == curr \div TILE_SIZE
             in_tile  == curr % TILE_SIZE
             t        == ResolveTile(s, tile_idx)
             end_in_tile == Min(Len(t.tile), in_tile + (end - curr))
         IN  IF ~t.ok
             THEN [ok |-> FALSE, rows |-> <<>>, s |-> t.s,
                   loads |-> loads \o t.loads]
             ELSE get_rows_loop(t.s, curr + (end_in_tile - in_tile), end,
                      result \o SubSeq(t.tile, in_tile + 1, end_in_tile),
                      loads \o t.loads)

\* get_rows(start, count): Ok(rows) or Err, the store afterwards, and the
\* tiles read from disk by the call
get_rows_OneTile(s, start, count) ==
    IF start >= s.nrows \/ count = 0
    THEN [ok |-> TRUE, rows |-> <<>>, s |-> s, loads |-> <<>>]
    ELSE get_rows_loop(s, start,
             Min(Min(s.nrows, start + count),
                 ((start \div TILE_SIZE) + 1) * TILE_SIZE), <<>>, <<>>)
get_rows_ResolveFirst(s, start, count) ==
    LET t == ResolveTile(s, start \div TILE_SIZE)
    IN  IF start >= s.nrows \/ count = 0
        THEN [ok |-> t.ok, rows |-> <<>>, s |-> t.s, loads |-> t.loads]
        ELSE get_rows_loop(s, start, Min(s.nrows, start + count), <<>>, <<>>)
get_rows(s, start, count) ==
    IF start >= s.nrows \/ count = 0
    THEN [ok |-> TRUE, rows |-> <<>>, s |-> s, loads |-> <<>>]
    ELSE get_rows_loop(s, start, Min(s.nrows, start + count), <<>>, <<>>)

\* for t in prefetch_start..=prefetch_end { let _ = load_tile_arc(t); }
RECURSIVE prefetch_loop(_, _, _, _)
prefetch_loop(s, t, prefetch_end, loads) ==
    IF t > prefetch_end THEN [s |-> s, loads |-> loads, panic |-> FALSE]
    ELSE prefetch_loop(load_tile_arc(s, t).s, t + 1, prefetch_end,
                       Append(loads, t))

\* prefetch_for_view(view_row, max_rows); checked: the build checks integer
\* overflow (debug profile) and panics on it, otherwise the value wraps
prefetch_for_view(s, view_row, max_rows, checked) ==
    LET tile_count == Len(s.tile_offsets)
        underflow  == view_row + max_rows = 0
        last_row   == IF underflow THEN USIZE_MAX ELSE view_row + max_rows - 1
        start_tile == view_row \div TILE_SIZE
        end_tile   == last_row \div TILE_SIZE
        prefetch_start == IF start_tile = 0 THEN 0 ELSE start_tile - 1
        prefetch_end   == Min(end_tile + 1, tile_count - 1)
    IN  IF tile_count = 0 THEN [s |-> s, loads |-> <<>>, panic |-> FALSE]
        ELSE IF underflow /\ checked
        THEN [s |-> s, loads |-> <<>>, panic |-> TRUE]
        ELSE prefetch_loop(s, prefetch_start, prefetch_end, <<>>)

\* from_rows(headers, rows_iter) when no I/O call fails
from_rows(ncols, rs) ==
    LET hdr == MAGIC \o U32(TILE_SIZE) \o U32(ncols)
        row_count_pos  == Len(hdr)
        tile_count_pos == Len(hdr) + 4
        w0 == [file |-> hdr \o U32(0) \o U32(0), tile_offsets |-> <<>>,
               tile_row_counts |-> <<>>, buf_tile |-> <<>>, nrows |-> 0]
        w  == FlushLast(from_rows_loop(rs, 1, w0))
        f1 == w.file \o OffsetTable(w.tile_offsets, 1)
                     \o CountTable(w.tile_row_counts, 1)
        f2 == Patch(Patch(f1, row_count_pos, w.nrows),
                    tile_count_pos, Len(w.tile_offsets))
        s0 == [temp_file |-> TRUE, file |-> f2, file_pos |-> 0,
               tile_offsets |-> w.tile_offsets,
               tile_row_counts |-> w.tile_row_counts,
               ncols |-> ncols, nrows |-> w.nrows, cache |-> <<>>,
               first_tile |-> None, last_tile |-> None]
        l0 == load_tile_arc(s0, 0)
        s1 == [l0.s EXCEPT !.first_tile = IF l0.ok THEN Some(l0.tile) ELSE None]
        l1 == load_tile_arc(s1, Len(s1.tile_offsets) - 1)
    IN  IF s0.tile_offsets = <<>> THEN s0
        ELSE [l1.s EXCEPT !.last_tile = IF l1.ok THEN Some(l1.tile) ELSE None]

\* Drop of NamedTempFile: the file is removed from disk
DropTempFile_Keep(t) == t
DropTempFile(t) == [t EXCEPT !.deleted = @ + 1]

\* ---- actions
\* TileRowStore::from_rows over the rows of the cursor.  fail = "create":
\* NamedTempFile::new()? returns Err; fail = "write": a later I/O call
\* returns Err and ? returns, dropping temp_file
T_FromRows ==
    /\ tpc = "input"
    /\ \E fail \in {"none", "create", "write"} :
         CASE fail = "none" ->
                /\ store' = from_rows(cursorRows.ncols, rows_iter(cursorRows))
                /\ tmp' = [tmp EXCEPT !.created = @ + 1]
                /\ tpc' = "alive"
           [] fail = "create" ->
                /\ tpc' = "failed"
                /\ UNCHANGED <<store, tmp>>
           [] fail = "write" ->
                /\ tmp' = DropTempFile([tmp EXCEPT !.created = @ + 1])
                /\ tpc' = "failed"
                /\ UNCHANGED store
    /\ lastOp' = "from_rows"
    /\ UNCHANGED cursorRows
    /\ UNCHANGED <<workerVars, chanVars, uiVars, edVars>>

T_GetRows ==
    /\ tpc = "alive"
    /\ \E start \in 0..(store.nrows + 1), count \in 0..MaxCount :
         store' = get_rows(store, start, count).s
    /\ lastOp' = "get_rows"
    /\ UNCHANGED <<tpc, cursorRows, tmp>>
    /\ UNCHANGED <<workerVars, chanVars, uiVars, edVars>>

T_Prefetch ==
    /\ tpc = "alive"
    /\ \E view_row \in 0..(store.nrows + 1), max_rows \in 0..MaxCount :
       \E checked \in IF view_row + max_rows = 0 THEN BOOLEAN ELSE {FALSE} :
         LET r == prefetch_for_view(store, view_row, max_rows, checked)
         IN  /\ store' = r.s
             /\ tpc' = IF r.panic THEN "panicked" ELSE "alive"
    /\ lastOp' = "prefetch"
    /\ UNCHANGED <<cursorRows, tmp>>
    /\ UNCHANGED <<workerVars, chanVars, uiVars, edVars>>

\* the store goes out of scope: impl Drop, then its fields are dropped
T_Drop ==
    /\ tpc = "alive"
    /\ tpc' = "dropped"
    /\ store' = NoStore
    /\ tmp' = DropTempFile(tmp)
    /\ lastOp' = "drop"
    /\ UNCHANGED cursorRows
    /\ UNCHANGED <<workerVars, chanVars, uiVars, edVars>>

TileInit ==
    /\ SysInit /\ EdIdle
    /\ tpc = "input"
    /\ cursorRows \in [n : 0..MaxStoreRows, ncols : 0..MaxStoreCols]
    /\ store = NoStore /\ tmp = NoTemp /\ lastOp = "none"

TileNext == T_FromRows \/ T_GetRows \/ T_Prefetch \/ T_Drop
SpecTile == TileInit /\ [][TileNext]_vars

\* ---------------------------------------------------------------- editor
\* src/src/editor.rs.  A character is the sequence of its UTF-8 bytes; a text
\* (the rope, a String) is a sequence of characters.  The rope is
\* ropey::Rope (1.x): insert and remove take character indices, byte_slice
\* takes byte offsets that must lie on character boundaries, and every
\* method panics when its index is out of bounds.  preferred_col,
\* viewport_offset, the timestamp of a group and the caret / anchor stored
\* with each op are written and never read; they are left out.

\* the keys typed: U+00E9 (two bytes) and Enter ('\n', one byte)
KeyChars == {<<195, 169>>, <<10>>}
LF == <<10>>
\* duration_since(last_time).as_millis() > 1000 starts a new group
GROUP_GAP_MS == 1000
\* the clock advances in steps of TickMs
TickMs == 1200

\* str::len: the number of bytes of a text
RECURSIVE ByteLen(_)
ByteLen(t) == IF t = <<>> THEN 0 ELSE Len(Head(t)) + ByteLen(Tail(t))

len_bytes(r) == ByteLen(r)
len_chars(r) == Len(r)
\* char_to_byte(char_idx), for char_idx <= len_chars
char_to_byte(r, ci) == ByteLen(SubSeq(r, 1, ci))
\* byte_to_char(byte_idx), for byte_idx <= len_bytes: the character the byte
\* belongs to
byte_to_char(r, b) ==
    CHOOSE ci \in 0..Len(r) :
        /\ char_to_byte(r, ci) <= b
        /\ ci = Len(r) \/ char_to_byte(r, ci + 1) > b
IsCharBoundary(r, b) == \E ci \in 0..Len(r) : char_to_byte(r, ci) = b
\* len_lines, byte_to_line, line_to_byte
len_lines(r) == Cardinality({i \in 1..Len(r) : r[i] = LF}) + 1
byte_to_line(r, b) ==
    Cardinality({i \in 1..Len(r) : r[i] = LF /\ char_to_byte(r, i) <= b})
line_to_byte(r, l) ==
    IF l = 0 THEN 0
    ELSE IF l >= len_lines(r) THEN len_bytes(r)
    ELSE LET i == CHOOSE i \in 1..Len(r) :
                    /\ r[i] = LF
                    /\ Cardinality({j \in 1..i : r[j] = LF}) = l
         IN  char_to_byte(r, i)

\* ---- rope calls on the editor record e; a call that panics sets e.fault
Faulted(e) == e.fault # NoFault
Panic(e, op, a, b) == [e EXCEPT !.fault = [op |-> op, at |-> a, to |-> b]]

\* rope.insert(char_idx, text)
RopeInsert(e, ci, text) ==
    IF Faulted(e) THEN e
    ELSE IF ci > len_chars(e.rope) THEN Panic(e, "insert", ci, ci)
    ELSE [e EXCEPT !.rope = SubSeq(@, 1, ci) \o text
                                \o SubSeq(@, ci + 1, Len(@))]
\* rope.remove(start..end), a range of character indices
RopeRemove(e, a, b) ==
    IF Faulted(e) THEN e
    ELSE IF a > b \/ b > len_chars(e.rope) THEN Panic(e, "remove", a, b)
    ELSE [e EXCEPT !.rope = SubSeq(@, 1, a) \o SubSeq(@, b + 1, Len(@))]
\* rope.byte_slice(a..b) can be taken
SliceOk(r, a, b) ==
    a <= b /\ b <= len_bytes(r) /\ IsCharBoundary(r, a) /\ IsCharBoundary(r, b)
\* rope.byte_slice(a..b).to_string(), when SliceOk
byte_slice(r, a, b) == SubSeq(r, byte_to_char(r, a) + 1, byte_to_char(r, b))

prev_char_boundary(r, pos) ==
    IF pos = 0 THEN 0
    ELSE LET char_idx == byte_to_char(r, Min(pos, len_bytes(r)))
         IN  IF char_idx > 0 THEN char_to_byte(r, char_idx - 1) ELSE 0

next_char_boundary(r, pos) ==
    IF pos >= len_bytes(r) THEN len_bytes(r)
    ELSE LET char_idx == byte_to_char(r, pos)
         IN  IF char_idx < len_chars(r) THEN char_to_byte(r, char_idx + 1)
             ELSE len_bytes(r)

\* the selection as (start, end)
SelStart(e) == Min(e.selection_anchor.v, e.caret)
SelEnd(e) == IF e.selection_anchor.v < e.caret THEN e.caret
             ELSE e.selection_anchor.v

\* ---- undo groups
InsertOp(pos, text) == [kind |-> "Insert", pos |-> pos, text |-> text]
DeleteOp(pos, text) == [kind |-> "Delete", pos |-> pos, text |-> text]

finalize_undo_group(e) ==
    IF e.current_group.some
    THEN [e EXCEPT !.current_group = None,
                   !.undo_stack = IF e.current_group.v.ops # <<>>
                                  THEN Append(@, e.current_group.v) ELSE @]
    ELSE e

add_edit_op_KeepRedo(e, op, t) ==
    LET should_start_new_group ==
            IF e.last_edit_time.some
            THEN t - e.last_edit_time.v > GROUP_GAP_MS ELSE TRUE
        e1 == IF should_start_new_group
              THEN [finalize_undo_group(e) EXCEPT !.current_group =
                        Some([ops |-> <<op>>, before |-> e.rope])]
              ELSE IF e.current_group.some
              THEN [e EXCEPT !.current_group.v.ops = Append(@, op)]
              ELSE e
    IN  IF Faulted(e) THEN e
        ELSE [e1 EXCEPT !.last_edit_time = Some(t)]

\* add_edit_op(op) at time t.  A group carries, for the properties only,
\* the rope as it was when the group was started (before).
add_edit_op(e, op, t) ==
    LET should_start_new_group ==
            IF e.last_edit_time.some
            THEN t - e.last_edit_time.v > GROUP_GAP_MS ELSE TRUE
        e1 == IF should_start_new_group
              THEN [finalize_undo_group(e) EXCEPT !.current_group =
                        Some([ops |-> <<op>>, before |-> e.rope])]
              ELSE IF e.current_group.some
              THEN [e EXCEPT !.current_group.v.ops = Append(@, op)]
              ELSE e
    IN  IF Faulted(e) THEN e
        ELSE [e1 EXCEPT !.last_edit_time = Some(t), !.redo_stack = <<>>]

\* ---- commands, as functions of the editor record e and the time t
delete_selection(e, t) ==
    IF ~e.selection_anchor.some THEN e
    ELSE LET start == SelStart(e)
             end   == SelEnd(e)
         IN  IF ~SliceOk(e.rope, start, end)
             THEN Panic(e, "byte_slice", start, end)
             ELSE LET text == byte_slice(e.rope, start, end)
                      e1 == add_edit_op(e, DeleteOp(start, text), t)
                      e2 == RopeRemove(e1, start, end)
                  IN  IF Faulted(e2) THEN e2
                      ELSE [e2 EXCEPT !.caret = start,
                                      !.selection_anchor = None,
                                      !.visual_lines_valid = FALSE,
                                      !.modified = TRUE]

insert_char(e, ch, t) ==
    LET text == <<ch>>
        e1 == delete_selection(e, t)
        e2 == add_edit_op(e1, InsertOp(e1.caret, text), t)
        e3 == RopeInsert(e2, e2.caret, text)
    IN  IF Faulted(e3) THEN e3
        ELSE [e3 EXCEPT !.caret = @ + ByteLen(text),
                        !.visual_lines_valid = FALSE,
                        !.modified = TRUE,
                        !.selection_anchor = None]

delete_char_before(e, t) ==
    IF e.selection_anchor.some THEN delete_selection(e, t)
    ELSE IF e.caret > 0
    THEN LET prev_char_start == prev_char_boundary(e.rope, e.caret)
         IN  IF ~SliceOk(e.rope, prev_char_start, e.caret)
             THEN Panic(e, "byte_slice", prev_char_start, e.caret)
             ELSE LET text == byte_slice(e.rope, prev_char_start, e.caret)
                      e1 == add_edit_op(e, DeleteOp(prev_char_start, text), t)
                      e2 == RopeRemove(e1, prev_char_start, e.caret)
                  IN  IF Faulted(e2) THEN e2
                      ELSE [e2 EXCEPT !.caret = prev_char_start,
                                      !.visual_lines_valid = FALSE,
                                      !.modified = TRUE]
    ELSE e

delete_char_after(e, t) ==
    IF e.selection_anchor.some THEN delete_selection(e, t)
    ELSE IF e.caret < len_bytes(e.rope)
    THEN LET next_char_end == next_char_boundary(e.rope, e.caret)
         IN  IF ~SliceOk(e.rope, e.caret, next_char_end)
             THEN Panic(e, "byte_slice", e.caret, next_char_end)
             ELSE LET text == byte_slice(e.rope, e.caret, next_char_end)
                      e1 == add_edit_op(e, DeleteOp(e.caret, text), t)
                      e2 == RopeRemove(e1, e.caret, next_char_end)
                  IN  IF Faulted(e2) THEN e2
                      ELSE [e2 EXCEPT !.visual_lines_valid = FALSE,
                                      !.modified = TRUE]
    ELSE e

\* the anchor handling shared by all the moves
MoveAnchor(e, select) ==
    IF ~select /\ e.selection_anchor.some
    THEN [e EXCEPT !.selection_anchor = None]
    ELSE IF select /\ ~e.selection_anchor.some
    THEN [e EXCEPT !.selection_anchor = Some(e.caret)]
    ELSE e

\* update_preferred_col: get_caret_visual_position slices the rope from the
\* start of the first visual line that holds the caret
update_preferred_col(e) ==
    LET hit == {i \in 1..Len(e.visual_lines) :
                    /\ e.caret >= e.visual_lines[i].start_byte
                    /\ e.caret <= e.visual_lines[i].end_byte}
        row == CHOOSE i \in hit : \A j \in hit : i <= j
    IN  IF hit = {} THEN e
        ELSE IF SliceOk(e.rope, e.visual_lines[row].start_byte, e.caret) THEN e
        ELSE Panic(e, "byte_slice", e.visual_lines[row].start_byte, e.caret)

move_caret_left(e, select) ==
    LET e1 == MoveAnchor(e, select)
    IN  IF e1.caret > 0
        THEN update_preferred_col(
                 [e1 EXCEPT !.caret = prev_char_boundary(e1.rope, e1.caret)])
        ELSE e1

move_caret_right(e, select) ==
    LET e1 == MoveAnchor(e, select)
    IN  IF e1.caret < len_bytes(e1.rope)
        THEN update_preferred_col(
                 [e1 EXCEPT !.caret = next_char_boundary(e1.rope, e1.caret)])
        ELSE e1

move_caret_up(e, select) == MoveAnchor(e, select)
move_caret_down(e, select) == MoveAnchor(e, select)

move_to_line_start(e, select) ==
    LET e1 == MoveAnchor(e, select)
    IN  IF e1.caret > len_bytes(e1.rope)
        THEN Panic(e1, "byte_to_line", e1.caret, e1.caret)
        ELSE [e1 EXCEPT !.caret =
                  line_to_byte(e1.rope, byte_to_line(e1.rope, e1.caret))]

move_to_line_end(e, select) ==
    LET e1 == MoveAnchor(e, select)
        line == byte_to_line(e1.rope, e1.caret)
        line_end == IF line < len_lines(e1.rope) - 1
                    THEN line_to_byte(e1.rope, line + 1) - 1
                    ELSE len_bytes(e1.rope)
    IN  IF e1.caret > len_bytes(e1.rope)
        THEN Panic(e1, "byte_to_line", e1.caret, e1.caret)
        ELSE update_preferred_col([e1 EXCEPT !.caret = line_end])

select_all(e) ==
    [e EXCEPT !.selection_anchor = Some(0), !.caret = len_bytes(e.rope)]

\* get_current_query: the selected text, or the whole rope; ok is FALSE when
\* byte_slice panics
get_current_query(e) ==
    IF e.selection_anchor.some
    THEN IF SliceOk(e.rope, SelStart(e), SelEnd(e))
         THEN [ok |-> TRUE, text |-> byte_slice(e.rope, SelStart(e), SelEnd(e))]
         ELSE [ok |-> FALSE, text |-> <<>>]
    ELSE [ok |-> TRUE, text |-> e.rope]

\* copy: clipboard.set_text is taken to succeed
copy(e) ==
    IF ~e.selection_anchor.some THEN e
    ELSE IF ~SliceOk(e.rope, SelStart(e), SelEnd(e))
    THEN Panic(e, "byte_slice", SelStart(e), SelEnd(e))
    ELSE [e EXCEPT !.clipboard =
              Some(byte_slice(e.rope, SelStart(e), SelEnd(e)))]

cut(e, t) ==
    IF e.selection_anchor.some
    THEN LET e1 == copy(e)
         IN  IF Faulted(e1) THEN e1 ELSE delete_selection(e1, t)
    ELSE e

\* paste: clipboard.get_text() is Err when the clipboard holds no text
paste(e, t) ==
    IF ~e.clipboard.some THEN e
    ELSE LET text == e.clipboard.v
             e1 == delete_selection(e, t)
             e2 == add_edit_op(e1, InsertOp(e1.caret, text), t)
             e3 == RopeInsert(e2, e2.caret, text)
         IN  IF Faulted(e3) THEN e3
             ELSE [e3 EXCEPT !.caret = @ + ByteLen(text),
                             !.visual_lines_valid = FALSE,
                             !.modified = TRUE]

\* for (op, _, _) in group.ops.iter().rev()
RECURSIVE UndoOps(_, _, _)
UndoOps(e, ops, k) ==
    IF k = 0 \/ Faulted(e) THEN e
    ELSE LET op == ops[k]
             e1 == IF op.kind = "Insert"
                   THEN RopeRemove(e, op.pos, op.pos + ByteLen(op.text))
                   ELSE RopeInsert(e, op.pos, op.text)
             c  == IF op.kind = "Insert" THEN op.pos
                   ELSE op.pos + ByteLen(op.text)
         IN  IF Faulted(e1) THEN e1
             ELSE UndoOps([e1 EXCEPT !.caret = c], ops, k - 1)

undo(e) ==
    LET e1 == finalize_undo_group(e)
        n  == Len(e1.undo_stack)
        group == e1.undo_stack[n]
        e2 == UndoOps([e1 EXCEPT !.undo_stack = SubSeq(@, 1, n - 1)],
                      group.ops, Len(group.ops))
    IN  IF n = 0 THEN e1
        ELSE IF Faulted(e2) THEN e2
        ELSE [e2 EXCEPT !.redo_stack = Append(@, group),
                        !.visual_lines_valid = FALSE,
                        !.selection_anchor = None]

\* for (op, _, _) in &group.ops
RECURSIVE RedoOps(_, _, _)
RedoOps(e, ops, k) ==
    IF k > Len(ops) \/ Faulted(e) THEN e
    ELSE LET op == ops[k]
             e1 == IF op.kind = "Insert"
                   THEN RopeInsert(e, op.pos, op.text)
                   ELSE RopeRemove(e, op.pos, op.pos + ByteLen(op.text))
             c  == IF op.kind = "Insert" THEN op.pos + ByteLen(op.text)
                   ELSE op.pos
         IN  IF Faulted(e1) THEN e1
             ELSE RedoOps([e1 EXCEPT !.caret = c], ops, k + 1)

redo(e) ==
    LET n == Len(e.redo_stack)
        group == e.redo_stack[n]
        e2 == RedoOps([e EXCEPT !.redo_stack = SubSeq(@, 1, n - 1)],
                      group.ops, 1)
    IN  IF n = 0 THEN e
        ELSE IF Faulted(e2) THEN e2
        ELSE [e2 EXCEPT !.undo_stack = Append(@, group),
                        !.visual_lines_valid = FALSE,
                        !.selection_anchor = None]

\* update_visual_lines: one visual line per logical line
update_visual_lines(e) ==
    LET r == e.rope
        n == len_lines(r)
    IN  [e EXCEPT !.visual_lines =
                [i \in 1..n |->
                    [start_byte |-> line_to_byte(r, i - 1),
                     end_byte |-> IF i - 1 < n - 1
                                  THEN line_to_byte(r, i) - 1
                                  ELSE len_bytes(r)]],
            !.visual_lines_valid = TRUE]

\* the byte_slice calls of render on visual line v: the line itself, the
\* parts before, inside and after the selection, and (when focused) the
\* part before the caret
RenderSlicesOk(e, focused) ==
    /\ \A i \in 1..Len(e.visual_lines) :
         LET v == e.visual_lines[i]
         IN  /\ SliceOk(e.rope, v.start_byte, v.end_byte)
             /\ (e.selection_anchor.some /\ v.start_byte < SelEnd(e)
                    /\ v.end_byte > SelStart(e)) =>
                   LET from == IF v.start_byte < SelStart(e)
                               THEN SelStart(e) ELSE v.start_byte
                       sel_end == Min(SelEnd(e), v.end_byte)
                   IN  /\ SliceOk(e.rope, v.start_byte, from)
                       /\ from < sel_end => SliceOk(e.rope, from, sel_end)
    /\ focused => ~Faulted(update_preferred_col(e))

render(e, focused) ==
    LET e1 == IF ~e.visual_lines_valid THEN update_visual_lines(e) ELSE e
    IN  IF RenderSlicesOk(e1, focused) THEN e1
        ELSE Panic(e1, "byte_slice", e1.caret, e1.caret)

\* ---- actions: one per key handled by handle_key, render, and the clock
\* the Editor as a record
Ed == [rope |-> rope, caret |-> caret, selection_anchor |-> selection_anchor,
       modified |-> modified, visual_lines_valid |-> visual_lines_valid,
       visual_lines |-> visual_lines, undo_stack |-> undo_stack,
       redo_stack |-> redo_stack, current_group |-> current_group,
       last_edit_time |-> last_edit_time, clipboard |-> clipboard,
       fault |-> fault]

edFields == <<rope, caret, selection_anchor, modified, visual_lines_valid,
              visual_lines, undo_stack, redo_stack, current_group,
              last_edit_time, clipboard>>

\* the command returned with e, or the thread panicked inside it
Commit(e) ==
    IF Faulted(e)
    THEN /\ epc' = "panicked" /\ fault' = e.fault
         /\ UNCHANGED edFields
    ELSE /\ rope' = e.rope /\ caret' = e.caret
         /\ selection_anchor' = e.selection_anchor
         /\ modified' = e.modified
         /\ visual_lines_valid' = e.visual_lines_valid
         /\ visual_lines' = e.visual_lines
         /\ undo_stack' = e.undo_stack /\ redo_stack' = e.redo_stack
         /\ current_group' = e.current_group
         /\ last_edit_time' = e.last_edit_time
         /\ clipboard' = e.clipboard
         /\ UNCHANGED <<epc, fault>>

\* an edit command: counted, the clock does not move
EditCmd(e) ==
    /\ nEdits < MaxEdits
    /\ Commit(e)
    /\ nEdits' = nEdits + 1
    /\ UNCHANGED now
    /\ UNCHANGED <<workerVars, chanVars, uiVars, tileVars>>

\* any other command
OtherCmd(e) ==
    /\ Commit(e)
    /\ UNCHANGED <<now, nEdits>>
    /\ UNCHANGED <<workerVars, chanVars, uiVars, tileVars>>

\* KeyCode::Char(ch) without CONTROL, KeyCode::Enter
E_InsertChar ==
    /\ epc = "run" /\ Len(rope) < MaxChars
    /\ \E ch \in KeyChars : EditCmd(insert_char(Ed, ch, now))
\* KeyCode::Backspace
E_Backspace == epc = "run" /\ EditCmd(delete_char_before(Ed, now))
\* KeyCode::Delete
E_Delete == epc = "run" /\ EditCmd(delete_char_after(Ed, now))
\* KeyCode::Left, Right, Up, Down, Home, End; select: SHIFT is held
E_Left ==
    epc = "run" /\ \E select \in BOOLEAN : OtherCmd(move_caret_left(Ed, select))
E_Right ==
    epc = "run" /\ \E select \in BOOLEAN : OtherCmd(move_caret_right(Ed, select))
E_Up ==
    epc = "run" /\ \E select \in BOOLEAN : OtherCmd(move_caret_up(Ed, select))
E_Down ==
    epc = "run" /\ \E select \in BOOLEAN : OtherCmd(move_caret_down(Ed, select))
E_Home ==
    epc = "run" /\ \E select \in BOOLEAN : OtherCmd(move_to_line_start(Ed, select))
E_End ==
    epc = "run" /\ \E select \in BOOLEAN : OtherCmd(move_to_line_end(Ed, select))
\* Ctrl-A, Ctrl-C, Ctrl-X, Ctrl-V, Ctrl-Z, Ctrl-Y
E_SelectAll == epc = "run" /\ OtherCmd(select_all(Ed))
E_Copy == epc = "run" /\ OtherCmd(copy(Ed))
E_Cut == epc = "run" /\ EditCmd(cut(Ed, now))
E_Paste ==
    /\ epc = "run"
    /\ clipboard.some => Len(rope) + Len(clipboard.v) <= MaxChars
    /\ EditCmd(paste(Ed, now))
E_Undo == epc = "run" /\ OtherCmd(undo(Ed))
E_Redo == epc = "run" /\ OtherCmd(redo(Ed))
\* Editor::render
E_Render ==
    epc = "run" /\ \E focused \in BOOLEAN : OtherCmd(render(Ed, focused))

\* time passes between two keys
E_Wait ==
    /\ epc = "run"
    /\ now + TickMs <= MaxClock
    /\ now' = now + TickMs
    /\ UNCHANGED <<epc, fault, edFields, nEdits>>
    /\ UNCHANGED <<workerVars, chanVars, uiVars, tileVars>>

\* Editor::new(); the system clipboard holds no text until copy sets one
InitClipboards == {None}
EdInit ==
    /\ SysInit /\ TileIdle
    /\ epc = "run" /\ rope = <<>> /\ caret = 0 /\ selection_anchor = None
    /\ modified = FALSE /\ visual_lines_valid = FALSE
    /\ undo_stack = <<>> /\ redo_stack = <<>> /\ current_group = None
    /\ last_edit_time = None /\ clipboard \in InitClipboards /\ now = 0
    /\ visual_lines = <<>> /\ nEdits = 0 /\ fault = NoFault

EdNext ==
    \/ E_InsertChar \/ E_Backspace \/ E_Delete
    \/ E_Left \/ E_Right \/ E_Up \/ E_Down \/ E_Home \/ E_End
    \/ E_SelectAll \/ E_Copy \/ E_Cut \/ E_Paste
    \/ E_Undo \/ E_Redo \/ E_Render \/ E_Wait
SpecEd == EdInit /\ [][EdNext]_vars

\* ---------------------------------------------------------------- properties
Terminal == {"QueryFinished", "QueryError"}

\* positions in the response stream of the responses of query i of batch b
\* whose type is in ts
Pos(b, i, ts) ==
    {p \in 1..Len(resp) : resp[p].b = b /\ resp[p].idx = i /\ resp[p].type \in ts}

\* the (batch, index) pairs that have a response
Answered == {<<resp[p].b, resp[p].idx>> :
                p \in {q \in 1..Len(resp) : resp[q].type # "Connected"}}

\* query i of batch c has been started and has a terminal response
Served(c, i) ==
    /\ Pos(c.b, i, {"QueryStarted"}) # {}
    /\ Pos(c.b, i, Terminal) # {}

\* C1: every query of a batch gets exactly one QueryStarted and exactly one
\* terminal response (QueryFinished or QueryError, never both, never two),
\* the QueryStarted first, whichever driver step fails.
C1_ExactlyOneStartedOneTerminal ==
    /\ \A a \in Answered :
         /\ Cardinality(Pos(a[1], a[2], {"QueryStarted"})) = 1
         /\ Cardinality(Pos(a[1], a[2], Terminal)) <= 1
         /\ \A s \in Pos(a[1], a[2], {"QueryStarted"}) :
              \A t \in Pos(a[1], a[2], Terminal) : s < t
    /\ \A c \in completed : \A i \in 0..(c.n - 1) :
         /\ Cardinality(Pos(c.b, i, {"QueryStarted"})) = 1
         /\ Cardinality(Pos(c.b, i, Terminal)) = 1

\* C2: within one RunQueries the responses come in index order: the index
\* never decreases along the stream, every response of query i comes after
\* QueryStarted(i), and QueryStarted(i+1) comes after a terminal response
\* of query i.
C2_IndexOrder ==
    /\ \A p, q \in 1..Len(resp) :
         (p < q /\ resp[p].b = resp[q].b) => resp[p].idx <= resp[q].idx
    /\ \A p \in 1..Len(resp) :
         resp[p].type \in Terminal =>
            \E s \in Pos(resp[p].b, resp[p].idx, {"QueryStarted"}) : s < p
    /\ \A p \in 1..Len(resp) :
         (resp[p].type = "QueryStarted" /\ resp[p].idx > 0) =>
            \E t \in Pos(resp[p].b, resp[p].idx - 1, Terminal) : t < p

\* a batch of two queries has been answered to its end
C2_Witness ==
    \E c \in completed :
        c.n = 2 /\ Served(c, 0) /\ Served(c, 1)

\* C3: when a driver step of the query failed (exec_direct, column count,
\* column describe, row fetch, tile store), the query does not get a
\* QueryFinished: here the state right after the QueryFinished was sent.
C3_FailureNeverFinished ==
    (wpc = "clear" /\ resp[Len(resp)].type = "QueryFinished") => fails = {}

\* C4: a failed query never skips a later one: every index of a batch whose
\* loop has ended, and every index before the one being executed, has a
\* QueryStarted and a terminal response.
C4_NoQuerySkipped ==
    /\ \A c \in completed : \A i \in 0..(c.n - 1) : Served(c, i)
    /\ (wpc \in {"started", "alloc", "exec", "numcols", "describe", "fetch",
                 "build", "clear"}) =>
          \A i \in 0..(idx - 1) : Served(cur, i)

\* a batch of two queries has ended whose first query ended in QueryError
\* only
C4_Witness ==
    \E c \in completed :
        /\ c.n = 2
        /\ Pos(c.b, 0, {"QueryError"}) # {}
        /\ Pos(c.b, 0, {"QueryFinished"}) = {}
        /\ Served(c, 1)

\* C5: the slot is empty whenever the worker is blocked on its request
\* channel, and it never holds the handle of a statement that was freed.
C5_SlotClearedWhenIdle ==
    /\ wpc = "idle" => slot = NoStmt
    /\ slot # NoStmt => slot \in live

\* C6: a cancel_query issued by the UI while a statement is in flight makes
\* the driver cancel call on the handle in the slot, while that statement is
\* live.
C6_CancelInvokesDriver ==
    \A c \in uiCancels :
        (c.inflight /\ c.h # NoStmt) =>
            [h |-> c.h, live |-> TRUE] \in cancelCalls

\* C7: the worker receiving a Cancel request makes no driver cancel call,
\* sends no response and leaves the slot as it is.
C7_WorkerCancelIsNoop ==
    [][(/\ wpc = "idle" /\ reqQ # <<>> /\ Head(reqQ).type = "Cancel"
        /\ reqQ' = Tail(reqQ))
         => (cancelCalls' = cancelCalls /\ resp' = resp /\ slot' = slot)]_vars

\* C8: a Cancel sent while query i of a batch was running leaves the later
\* queries of the batch alone: each of them is started and gets a terminal
\* response.
C8_CancelKeepsLaterQueries ==
    \A c \in completed : \A i \in 0..(c.n - 1) :
        <<c.b, i>> \in cancelDuring =>
            \A j \in (i + 1)..(c.n - 1) : Served(c, j)

\* a batch of two queries has ended, and a Cancel was sent during its
\* first query
C8_Witness ==
    \E c \in completed :
        c.n = 2 /\ <<c.b, 0>> \in cancelDuring /\ Served(c, 1)

\* C9: a worker without environment or connection never sends a response,
\* never touches the slot or the driver's cancel, discards what it receives
\* and exits exactly when it receives Quit (or the channel is closed).
C9_DegradedDiscards ==
    [][wpc = "degraded" =>
         /\ resp = <<>> /\ resp' = <<>>
         /\ slot' = NoStmt /\ cancelCalls' = {} /\ live' = {}
         /\ wpc' \in {"degraded", "done"}
         /\ Len(reqQ') < Len(reqQ) =>
               /\ reqQ' = Tail(reqQ)
               /\ (wpc' = "done") = (Head(reqQ).type = "Quit")]_vars

\* a degraded worker has exited after discarding a RunQueries and a Cancel
C9_Witness ==
    /\ wpc = "done" /\ resp = <<>> /\ reqQ = <<>>
    /\ nextBatch > 1 /\ nSent > 0 /\ nCancels > 0

\* C10: batches are answered in the order they were sent (batch ids are
\* given in sending order) and at most one statement is live at a time, the
\* one the slot names while it executes.
C10_BatchOrderOneStatement ==
    /\ \A p, q \in 1..Len(resp) : p < q => resp[p].b <= resp[q].b
    /\ Cardinality(live) <= 1
    /\ InFlight => live = {slot}

\* two batches have been answered
C10_Witness ==
    /\ \E p \in 1..Len(resp) : resp[p].b = 1
    /\ \E p \in 1..Len(resp) : resp[p].b = 2

\* ------------------------------------------------- tile store properties
RECURSIVE SumSeq(_, _)
SumSeq(q, k) == IF k > Len(q) THEN 0 ELSE q[k] + SumSeq(q, k + 1)

\* rows s .. e-1 of the stream handed to from_rows
StreamRows(s, e) == SubSeq(rows_iter(cursorRows), s + 1, e)

\* C11: in every state of a live store, whatever get_rows and prefetch calls
\* came before, get_rows(s, c) with s < N and c > 0 returns Ok with exactly
\* rows s .. min(N, s + c) of the N rows streamed into from_rows, in order.
C11_GetRowsExact ==
    tpc = "alive" =>
        \A start \in 0..(cursorRows.n - 1), count \in 1..MaxCount :
            LET r == get_rows(store, start, count)
            IN  /\ r.ok
                /\ r.rows = StreamRows(start, Min(cursorRows.n, start + count))
                /\ Len(r.rows) = Min(count, cursorRows.n - start)

\* a store with first, last and intermediate tiles whose cache has been
\* filled by earlier get_rows calls
C11_Witness ==
    /\ tpc = "alive" /\ lastOp = "get_rows"
    /\ Len(store.tile_offsets) >= 4 /\ Len(store.cache) >= 2
    /\ MaxCount > TILE_SIZE

\* C12: after from_rows over N rows there are T = ceil(N / TILE_SIZE) tiles,
\* every tile but the last holds TILE_SIZE rows, the last holds 1..TILE_SIZE
\* rows, the counts sum to nrows = N, and tile_offsets has T strictly
\* increasing entries.
C12_TileIndex ==
    tpc = "alive" =>
        LET N == cursorRows.n
            T == Len(store.tile_offsets)
            cnt == store.tile_row_counts
            off == store.tile_offsets
        IN  /\ T = (N + TILE_SIZE - 1) \div TILE_SIZE
            /\ Len(cnt) = T
            /\ \A i \in 1..(T - 1) : cnt[i] = TILE_SIZE
            /\ T > 0 => cnt[T] \in 1..TILE_SIZE
            /\ SumSeq(cnt, 1) = N /\ store.nrows = N
            /\ \A i \in 1..(T - 1) : off[i] < off[i + 1]

\* a store whose last tile is short and is not the only tile
C12_Witness ==
    /\ tpc = "alive" /\ Len(store.tile_offsets) >= 2
    /\ store.tile_row_counts[Len(store.tile_row_counts)] < TILE_SIZE

\* C13: get_rows(start, count) with start >= nrows or count = 0 returns Ok
\* with no rows, reads no tile from disk and leaves the store as it was; so
\* does every get_rows on a store built from zero rows.
C13_EmptyWindow ==
    tpc = "alive" =>
        \A start \in 0..(store.nrows + 1), count \in 0..MaxCount :
            (start >= store.nrows \/ count = 0) =>
                LET r == get_rows(store, start, count)
                IN  r.ok /\ r.rows = <<>> /\ r.loads = <<>> /\ r.s = store

\* get_rows has been called on a store built from zero rows
C13_Witness ==
    /\ tpc = "alive" /\ lastOp = "get_rows"
    /\ store.nrows = 0 /\ store.tile_offsets = <<>>

\* rows of tile i of the stream handed to from_rows
StreamTile(i) ==
    StreamRows(i * TILE_SIZE, Min(cursorRows.n, (i + 1) * TILE_SIZE))

PrefetchRange(s, view_row, max_rows) ==
    LET T  == Len(s.tile_offsets)
        lo == IF view_row \div TILE_SIZE = 0 THEN 0
              ELSE (view_row \div TILE_SIZE) - 1
        hi == Min(T - 1, ((view_row + max_rows - 1) \div TILE_SIZE) + 1)
    IN  lo..hi

\* C15: after prefetch_for_view(view_row, max_rows) has returned, every tile
\* of the prefetch range other than the first and the last tile is in the
\* LRU cache, and a following get_rows(view_row, max_rows) reads no tile
\* from disk.
C15_PrefetchWarmsCache ==
    tpc = "alive" =>
        \A view_row \in 0..(store.nrows + 1), max_rows \in 1..MaxCount :
            LET p == prefetch_for_view(store, view_row, max_rows, FALSE)
                T == Len(store.tile_offsets)
            IN  /\ \A t \in PrefetchRange(store, view_row, max_rows) :
                       t \notin {0, T - 1} => cache_contains(p.s.cache, t)
                /\ get_rows(p.s, view_row, max_rows).loads = <<>>

\* C16: while the store is alive its temp file exists (created once, not
\* deleted); once the store is dropped the file has been deleted exactly
\* once; when from_rows fails no store exists and every temp file created
\* has been deleted.
C16_TempFileLifetime ==
    /\ tmp.deleted <= tmp.created /\ tmp.created <= 1
    /\ tpc = "alive" => store.temp_file /\ tmp.created = 1 /\ tmp.deleted = 0
    /\ tpc = "dropped" => tmp.created = 1 /\ tmp.deleted = 1
    /\ tpc = "failed" => store = NoStore /\ tmp.deleted = tmp.created

\* a store that served reads has been dropped, its file deleted
C16_Witness ==
    /\ tpc = "dropped" /\ cursorRows.n > 0
    /\ tmp = [created |-> 1, deleted |-> 1]

\* from_rows failed after the temp file had been created
C16_FailedWitness ==
    tpc = "failed" /\ tmp = [created |-> 1, deleted |-> 1]

\* C17: every cell the driver returned as NULL reads back from the store as
\* NULL_SENTINEL, and every cell the driver returned as a string reads back
\* as that string, for every row streamed by the worker.
C17_NullSentinel ==
    tpc = "alive" =>
        LET r == get_rows(store, 0, store.nrows)
        IN  /\ r.ok /\ Len(r.rows) = cursorRows.n
            /\ \A i \in 1..cursorRows.n, c \in 1..cursorRows.ncols :
                   LET cell == DriverCell(i - 1, c - 1)
                   IN  /\ Len(r.rows[i]) = cursorRows.ncols
                       /\ cell.k = "null" => r.rows[i][c] = NULL_SENTINEL
                       /\ cell.k = "str" => r.rows[i][c] = cell.v

\* a store holding rows with NULL cells, empty strings and two-byte
\* characters has been read
C17_Witness ==
    /\ tpc = "alive" /\ lastOp = "get_rows"
    /\ cursorRows.ncols >= 2 /\ cursorRows.n >= 4

\* ------------------------------------------------------ editor properties
\* the caret and the anchor of e lie in the rope, the caret between two
\* characters
CaretOk(e) ==
    /\ e.caret <= len_bytes(e.rope)
    /\ IsCharBoundary(e.rope, e.caret)
    /\ e.selection_anchor.some => e.selection_anchor.v <= len_bytes(e.rope)

\* the edit, undo and redo commands that can be issued in the current state
EditResults ==
    {insert_char(Ed, ch, now) : ch \in KeyChars}
        \cup {delete_char_before(Ed, now), delete_char_after(Ed, now),
              delete_selection(Ed, now), cut(Ed, now), paste(Ed, now),
              undo(Ed), redo(Ed)}

\* the moves and selections that can be issued in the current state
MoveResults ==
    UNION {{move_caret_left(Ed, select), move_caret_right(Ed, select),
            move_caret_up(Ed, select), move_caret_down(Ed, select),
            move_to_line_start(Ed, select), move_to_line_end(Ed, select)} :
                select \in BOOLEAN}
        \cup {select_all(Ed)}

\* C18: after any sequence of editor commands the caret lies in
\* 0..len_bytes(rope) on a character boundary, and a selection anchor that
\* is set lies in 0..len_bytes(rope): it is so in every state the editor
\* reaches and after every command that returns from such a state.
C18_CaretInRange ==
    epc = "run" =>
        /\ CaretOk(Ed)
        /\ \A e \in EditResults \cup MoveResults : ~Faulted(e) => CaretOk(e)

\* C19: no sequence of editor commands makes a rope operation fail: in every
\* state the editor reaches, each edit, undo and redo runs to its end without
\* a rope insert, remove or slice out of the rope.
C19_NoRopeOpFails ==
    epc = "run" => \A e \in EditResults : ~Faulted(e)

\* C20: undo finalizes the group in progress and restores the rope to its
\* state before the first edit of the most recent group, with the caret in
\* 0..len_bytes(rope); holding in every reachable state, k successive undos
\* go back through the k most recent group boundaries.
C20_UndoRestoresGroupStart ==
    LET e1 == finalize_undo_group(Ed)
        n  == Len(e1.undo_stack)
        u  == undo(Ed)
    IN  (epc = "run" /\ n > 0) =>
            /\ ~Faulted(u)
            /\ u.rope = e1.undo_stack[n].before
            /\ u.caret <= len_bytes(u.rope)

\* C21: in any state with a non-empty undo history, undo followed at once by
\* redo is the identity on the rope, the caret and the modified flag.
C21_UndoRedoIdentity ==
    LET n == Len(finalize_undo_group(Ed).undo_stack)
        u == undo(Ed)
        r == redo(u)
    IN  (epc = "run" /\ n > 0) =>
            /\ ~Faulted(u) /\ ~Faulted(r)
            /\ r.rope = rope /\ r.caret = caret /\ r.modified = modified

\* the ops of the group in progress of e, <<>> when there is none
GroupOps(e) == IF e.current_group.some THEN e.current_group.v.ops ELSE <<>>

\* C22: typing a character while a non-empty selection exists gives the rope
\* and caret of delete_selection followed by the insert at min(anchor,
\* caret), the Delete and the Insert are the last two ops of one undo group,
\* and a single undo gives back the rope as it was before the replacement.
C22_ReplaceSelectionAtomic ==
    (epc = "run" /\ selection_anchor.some /\ selection_anchor.v # caret) =>
        \A ch \in KeyChars :
            LET r   == insert_char(Ed, ch, now)
                d   == delete_selection(Ed, now)
                two == insert_char(d, ch, now)
                ops == GroupOps(r)
                k   == Len(ops)
            IN  /\ ~Faulted(r)
                /\ d.caret = SelStart(Ed)
                /\ r.rope = two.rope /\ r.caret = two.caret
                /\ k >= 2
                /\ ops[k - 1].kind = "Delete" /\ ops[k].kind = "Insert"
                /\ ~Faulted(undo(r))
                /\ undo(r).rope = rope

\* two results of a command agree on all that an edit can change
SameEdit(a, b) ==
    /\ a.fault = b.fault
    /\ a.rope = b.rope /\ a.caret = b.caret /\ a.modified = b.modified
    /\ a.undo_stack = b.undo_stack /\ a.redo_stack = b.redo_stack
    /\ a.current_group = b.current_group

\* C23: an empty selection (anchor set and equal to the caret) is equivalent
\* to no selection: get_current_query returns the whole rope, and
\* delete_selection, delete_before, delete_after and cut do what they do
\* with anchor = None.
C23_EmptySelectionIsNone ==
    (epc = "run" /\ selection_anchor = Some(caret)) =>
        LET E0 == [Ed EXCEPT !.selection_anchor = None]
        IN  /\ get_current_query(Ed) = get_current_query(E0)
            /\ SameEdit(delete_selection(Ed, now), delete_selection(E0, now))
            /\ SameEdit(delete_char_before(Ed, now),
                        delete_char_before(E0, now))
            /\ SameEdit(delete_char_after(Ed, now),
                        delete_char_after(E0, now))
            /\ SameEdit(cut(Ed, now), cut(E0, now))

\* the bytes of a text, one after the other
RECURSIVE Bytes(_)
Bytes(t) == IF t = <<>> THEN <<>> ELSE Head(t) \o Bytes(Tail(t))

\* C24: delete_selection with anchor a and caret c removes exactly the
\* bytes [min(a,c), max(a,c)) of the rope, leaves the caret at min(a,c) and
\* clears the anchor; with no selection it changes neither the rope, the
\* caret, the modified flag nor the undo and redo stacks.
C24_DeleteSelectionRange ==
    epc = "run" =>
        LET d  == delete_selection(Ed, now)
            lo == SelStart(Ed)
            hi == SelEnd(Ed)
            b  == Bytes(rope)
        IN  IF selection_anchor.some
            THEN /\ ~Faulted(d)
                 /\ Bytes(d.rope) = SubSeq(b, 1, lo) \o SubSeq(b, hi + 1, Len(b))
                 /\ d.caret = lo
                 /\ d.selection_anchor = None
            ELSE d = Ed

\* C25: on a rope of more than one line, move_down from a caret on the
\* first line puts the caret on the second line (move_up and move_down move
\* the caret by one visual line).
C25_MoveDownChangesLine ==
    (epc = "run" /\ len_lines(rope) > 1 /\ caret <= len_bytes(rope)
        /\ byte_to_line(rope, caret) = 0) =>
        \A select \in BOOLEAN :
            LET e == move_caret_down(Ed, select)
            IN  e.caret # caret /\ byte_to_line(e.rope, e.caret) = 1

\* ------------------------------------------------- worker protocol order
\* C26: within one query the steps are ordered publish, Started, run,
\* clear, terminal: when QueryStarted(i) is sent the slot holds the handle
\* of the statement of query i, and when the terminal response of i is sent
\* the slot has been cleared.
C26_PublishStartedClearTerminal ==
    [][resp' # resp =>
         LET m == resp'[Len(resp')]
         IN  /\ m.type = "QueryStarted" => (slot' # NoStmt /\ slot' \in live')
             /\ m.type \in Terminal => slot' = NoStmt]_vars

\* the RunQueries requests that are in the request channel
QueuedBatches == {reqQ[k].b : k \in {j \in 1..Len(reqQ) :
                                        reqQ[j].type = "RunQueries"}}

\* the worker has left its main loop (it had connected)
ExitedMain == wpc = "done" /\ resp # <<>>

\* a request in the channel has no response
C27_QueuedUnanswered ==
    \A p \in 1..Len(resp) : resp[p].b \notin QueuedBatches

\* at the exit every RunQueries received was run to the end of its loop and
\* each of its queries has a terminal response
C27_ReceivedAnswered ==
    ExitedMain =>
        \A b \in (1..(nextBatch - 1)) \ QueuedBatches :
            \E c \in completed :
                /\ c.b = b
                /\ \A i \in 0..(c.n - 1) : Pos(b, i, Terminal) # {}

CacheOrder(c) == [i \in 1..Len(c) |-> c[i].idx]

\* C28: resolving an intermediate tile (index neither 0 nor T-1): on a cache
\* hit no tile is read from disk and the tile becomes the most recently
\* used, the others keeping their order; on a miss the tile is read and
\* inserted as the most recently used, and when the cache is full (6 tiles
\* in the source, CACHE_CAP here) the least recently used tile, and no
\* other, is evicted.
C28_LruHitMiss ==
    tpc = "alive" =>
        \A k \in 1..(Len(store.tile_offsets) - 2) :
            LET r   == ResolveTile(store, k)
                old == CacheOrder(store.cache)
                new == CacheOrder(r.s.cache)
                others == SelectSeq(old, LAMBDA x : x # k)
            IN  /\ r.ok /\ r.tile = StreamTile(k)
                /\ r.s.cache[1] = [idx |-> k, tile |-> StreamTile(k)]
                /\ IF cache_contains(store.cache, k)
                   THEN r.loads = <<>> /\ new = <<k>> \o others
                   ELSE /\ r.loads = <<k>>
                        /\ new = <<k>> \o
                              (IF Len(old) = CACHE_CAP
                               THEN SubSeq(old, 1, CACHE_CAP - 1) ELSE old)

\* the cache is full after get_rows calls, it holds an intermediate tile
\* and misses another one
C28_Witness ==
    /\ tpc = "alive" /\ lastOp = "get_rows"
    /\ Len(store.cache) = CACHE_CAP
    /\ \E k \in 1..(Len(store.tile_offsets) - 2) :
           ~cache_contains(store.cache, k)

\* C29: for every view_row >= 0 and max_rows >= 0, prefetch_for_view ends
\* without panic or arithmetic underflow and loads only tiles of the range
\* [max(0, view_row/TILE_SIZE - 1),
\*  min(T-1, (view_row+max_rows-1)/TILE_SIZE + 1)]; it loads nothing when
\* the store has no tiles.
C29_PrefetchClamped ==
    tpc = "alive" =>
        \A view_row \in 0..(store.nrows + 1), max_rows \in 0..MaxCount :
            \A checked \in BOOLEAN :
                LET p == prefetch_for_view(store, view_row, max_rows, checked)
                IN  /\ ~p.panic
                    /\ \A i \in 1..Len(p.loads) :
                           p.loads[i] \in PrefetchRange(store, view_row,
                                                        max_rows)
                    /\ store.tile_offsets = <<>> => p.loads = <<>>

\* the fields of the store other than the LRU and the read cursor
Logical(s) == [s EXCEPT !.cache = <<>>, !.file_pos = 0]

\* C30: get_rows and prefetch_for_view leave nrows, ncols, tile_offsets,
\* tile_row_counts, the pinned first and last tiles and the temp file as
\* they were; only the LRU and the read cursor of the file may change.
C30_FetchKeepsLogicalState ==
    tpc = "alive" =>
        /\ \A start \in 0..(store.nrows + 1), count \in 0..MaxCount :
               Logical(get_rows(store, start, count).s) = Logical(store)
        /\ \A view_row \in 0..(store.nrows + 1), max_rows \in 0..MaxCount :
               \A checked \in BOOLEAN :
                   Logical(prefetch_for_view(store, view_row, max_rows,
                                             checked).s) = Logical(store)

\* a store with intermediate tiles on which get_rows has filled the cache
\* and moved the read cursor, and prefetch_for_view was called last
C30_Witness ==
    /\ tpc = "alive" /\ lastOp = "prefetch"
    /\ store.cache # <<>> /\ store.file_pos > 0
    /\ Len(store.tile_offsets) >= 3

\* C31: the tile written at tile_offsets[i] decodes to tile_row_counts[i]
\* rows of ncols cells each, equal cell for cell to rows i * TILE_SIZE ..
\* of the stream handed to from_rows; the first tile begins at byte 20 and
\* every other tile where the body of the tile before it ends.
C31_TileRoundTrip ==
    tpc = "alive" =>
        LET T   == Len(store.tile_offsets)
            off == store.tile_offsets
        IN  /\ T > 0 => off[1] = 20
            /\ \A i \in 0..(T - 1) :
                   LET l == load_tile_arc(store, i)
                   IN  /\ l.ok
                       /\ Len(l.tile) = store.tile_row_counts[i + 1]
                       /\ \A r \in 1..Len(l.tile) :
                              Len(l.tile[r]) = store.ncols
                       /\ l.tile = StreamTile(i)
                       /\ i < T - 1 => off[i + 2] = l.s.file_pos
                       /\ off[i + 1] + Len(write_tile(StreamTile(i)))
                              = l.s.file_pos

\* a store of several tiles, the last one short, whose rows hold a two-byte
\* character, an empty string and the NULL sentinel
C31_Witness ==
    /\ tpc = "alive" /\ Len(store.tile_offsets) >= 3
    /\ cursorRows.ncols >= 2 /\ cursorRows.n >= 5
    /\ store.tile_row_counts[Len(store.tile_row_counts)] < TILE_SIZE
    /\ store.file_pos > 0

\* ------------------------------------------- editor properties, cont.
\* the results of the commands that edit the rope, in the current state
ChangeResults ==
    {insert_char(Ed, ch, now) : ch \in KeyChars}
        \cup {delete_char_before(Ed, now), delete_char_after(Ed, now),
              delete_selection(Ed, now), cut(Ed, now), paste(Ed, now)}

\* q begins with p
IsPrefix(p, q) == Len(p) <= Len(q) /\ SubSeq(q, 1, Len(p)) = p

\* C32: every edit that changes the rope is recorded in exactly one undo
\* group: when more than 1000 ms have passed since the last edit, or no
\* group is in progress, the group in progress is finalized and a new group
\* holds the edit; otherwise the edit is appended to the group in progress.
\* No edit is left out of the undo history.
C32_EveryEditRecorded ==
    epc = "run" =>
        \A e \in ChangeResults :
            (~Faulted(e) /\ e.rope # rope) =>
                LET gap == last_edit_time.some =>
                               now - last_edit_time.v > GROUP_GAP_MS
                    old == GroupOps(Ed)
                    new == GroupOps(e)
                IN  /\ e.current_group.some /\ new # <<>>
                    /\ IF gap \/ ~current_group.some
                       THEN /\ e.undo_stack = finalize_undo_group(Ed).undo_stack
                            /\ Len(new) <= 2
                       ELSE /\ e.undo_stack = undo_stack
                            /\ IsPrefix(old, new) /\ Len(new) > Len(old)

\* C33: an edit that is the first after a non-edit operation begins a new
\* undo group: of two edits less than 1000 ms apart with a caret move or a
\* selection change between them, the later one is in a group of its own,
\* and one undo reverts the later edit only.
C33_MoveStartsNewGroup ==
    (epc = "run" /\ current_group.some /\ last_edit_time.some
        /\ now - last_edit_time.v <= GROUP_GAP_MS) =>
        \A select \in BOOLEAN :
            LET m == move_caret_left(Ed, select)
            IN  \A ch \in KeyChars :
                    LET e == insert_char(m, ch, now)
                    IN  (~Faulted(m) /\ ~Faulted(e)) =>
                            /\ e.undo_stack = Append(undo_stack,
                                                     current_group.v)
                            /\ ~Faulted(undo(e))
                            /\ undo(e).rope = rope

\* C34: after every command that changes the rope the redo stack is empty,
\* so that redo after a fresh edit changes nothing; no command other than
\* undo and redo moves a group from one stack to the other.
C34_EditClearsRedo ==
    epc = "run" =>
        /\ \A e \in ChangeResults :
               (~Faulted(e) /\ e.rope # rope) =>
                   e.redo_stack = <<>> /\ redo(e) = e
        /\ \A e \in ChangeResults \cup MoveResults \cup {copy(Ed)} :
               ~Faulted(e) =>
                   /\ e.redo_stack \in {redo_stack, <<>>}
                   /\ e.undo_stack \in
                          {undo_stack, finalize_undo_group(Ed).undo_stack}

\* a group has been undone and an edit issued now empties the redo stack
C34_Witness ==
    /\ epc = "run" /\ redo_stack # <<>>
    /\ \E e \in ChangeResults :
           ~Faulted(e) /\ e.rope # rope /\ e.redo_stack = <<>>

\* C35: after every undo and every redo, in any state, an empty stack
\* included, the selection anchor is None and the visual lines are marked
\* stale.
C35_UndoRedoClearSelection ==
    epc = "run" =>
        \A e \in {undo(Ed), redo(Ed)} :
            ~Faulted(e) =>
                e.selection_anchor = None /\ ~e.visual_lines_valid

\* t without its character number ci (from 1)
WithoutChar(t, ci) == SubSeq(t, 1, ci - 1) \o SubSeq(t, ci + 1, Len(t))

\* C36: with no selection and the caret between two characters,
\* delete_before removes the one character before the caret and leaves the
\* caret at its start, delete_after removes the one character after the
\* caret and leaves the caret, and both do nothing at the start / end of the
\* rope; with a selection both delete the selection and record one Delete
\* op.
C36_DeleteOneCodePoint ==
    (epc = "run" /\ CaretOk(Ed)) =>
        LET ci == byte_to_char(rope, caret)
            b  == delete_char_before(Ed, now)
            a  == delete_char_after(Ed, now)
            d  == delete_selection(Ed, now)
        IN  IF ~selection_anchor.some
            THEN /\ ~Faulted(b) /\ ~Faulted(a)
                 /\ IF caret = 0 THEN b = Ed
                    ELSE /\ b.rope = WithoutChar(rope, ci)
                         /\ b.caret = char_to_byte(rope, ci - 1)
                 /\ IF caret = len_bytes(rope) THEN a = Ed
                    ELSE /\ a.rope = WithoutChar(rope, ci + 1)
                         /\ a.caret = caret
            ELSE /\ b = d /\ a = d /\ ~Faulted(d)
                 /\ Bytes(d.rope) =
                        SubSeq(Bytes(rope), 1, SelStart(Ed))
                            \o SubSeq(Bytes(rope), SelEnd(Ed) + 1,
                                      Len(Bytes(rope)))
                 /\ GroupOps(d) # <<>>
                 /\ GroupOps(d)[Len(GroupOps(d))] =
                        DeleteOp(SelStart(Ed),
                                 byte_slice(rope, SelStart(Ed), SelEnd(Ed)))

\* C37: move_left and move_right move the caret by one character, not at
\* all at the start / end of the rope, and leave the rope as it is; with
\* select = false the anchor is cleared, with select = true and no anchor
\* the anchor becomes the caret of before the move, with select = true and
\* an anchor the anchor is kept.
C37_MoveOneCodePoint ==
    epc = "run" =>
        \A select \in BOOLEAN :
            LET l  == move_caret_left(Ed, select)
                r  == move_caret_right(Ed, select)
                ci == byte_to_char(rope, caret)
                an == IF ~select THEN None
                      ELSE IF selection_anchor.some THEN selection_anchor
                      ELSE Some(caret)
            IN  /\ ~Faulted(l) /\ ~Faulted(r)
                /\ l.rope = rope /\ r.rope = rope
                /\ l.selection_anchor = an /\ r.selection_anchor = an
                /\ l.caret = IF caret = 0 THEN 0
                             ELSE char_to_byte(rope, ci - 1)
                /\ r.caret = IF caret = len_bytes(rope) THEN caret
                             ELSE char_to_byte(rope, ci + 1)

\* ------------------------------------------------- Workspace properties
\* the step sends a RunQueries request
SendsRun ==
    /\ Len(reqQ') = Len(reqQ) + 1
    /\ reqQ'[Len(reqQ')].type = "RunQueries"

\* C38: the UI sends a RunQueries only after it has received Connected (so
\* never to a Degraded worker), only while its running flag is clear and
\* only when the current query text is not empty.
C38_RunNeedsConnection ==
    /\ [](connected => \E k \in 1..uiPos : resp[k] = ConnectedMsg)
    /\ [](wpc = "degraded" => (~connected /\ nextBatch = 1))
    /\ [][SendsRun => (connected /\ ~running /\ wsQuery # <<>>)]_vars

\* a RunQueries was sent, its QueryStarted received, and the buffer emptied
\* since: Ctrl+Enter is refused on both counts
C38_Witness ==
    /\ uiAlive /\ nextBatch > 1 /\ connected /\ running /\ wsQuery = <<>>

\* the tabs that are Pending; the QueryStarted responses the UI has received
PendingTabs == {k \in 1..Len(tabs) : tabs[k] = "Pending"}
StartedReceived == {k \in 1..uiPos : resp[k].type = "QueryStarted"}

\* C39: every QueryStarted adds one Pending tab and every QueryFinished or
\* QueryError replaces the content of the oldest Pending tab: at most one
\* tab is Pending at any time, no terminal response creates a tab (there
\* are as many tabs as QueryStarted received), and when the UI has drained
\* the responses of a worker that is not inside a query no tab is Pending.
C39_PendingTabResolved ==
    /\ Cardinality(PendingTabs) <= 1
    /\ Len(tabs) = Cardinality(StartedReceived)
    /\ (uiPos = Len(resp) /\ ~InQuery /\ wpc # "crashed") => PendingTabs = {}

\* C40: the UI never has two batches outstanding: it sends a RunQueries
\* only when it has received the terminal response of every RunQueries it
\* sent before.
C40_OneBatchOutstanding ==
    [][SendsRun =>
          \A b \in 1..(nextBatch - 1) :
              \E k \in 1..uiPos : resp[k].b = b /\ resp[k].type \in Terminal]_vars
====
